---- MODULE Spec2Model ----
(***************************************************************************)
(* A model of go-genjson: the funcparser combinator framework, the JSON    *)
(* grammar of deserialize.go, the Value / Object model and the Serializer. *)
(*                                                                         *)
(* Text is a sequence of bytes; a byte is a one-element string ("a", "[",  *)
(* "\n") or a bracketed name for a byte TLA+ has no escape for ("<BEL>").  *)
(* Generic type parameters of the Go code that decide behaviour (the       *)
(* result type R of ChainP / TryP) are explicit arguments: "B" for         *)
(* *BoolResult, "E" for *ErrResult, "C" for *CombineResult.                *)
(***************************************************************************)
EXTENDS Integers, Sequences, FiniteSets, TLC

VARIABLES
  v,       \* the Value handed to Serialize
  cfg,     \* the Serializer configuration
  mut,     \* how the serialized text is altered before it is parsed
  text,    \* cfg.Serialize(v)
  input,   \* the bytes handed to Deserialize
  out,     \* what Deserialize returned: [value, err]
  text2,   \* cfg.Serialize of the parsed value
  pc,      \* position of the caller
  obj,     \* an Object driven through its methods
  hist,    \* where obj came from, then the calls that changed it, oldest first
  iter,    \* the ObjectIterator the caller holds, and the pairs it has yielded
  ret,     \* the last call on obj and what it returned
  sortImpl, \* the sort.Slice of the toolchain that built the program
  target,  \* the variable a decoder is pointed at: what was passed, what it holds
  frames,  \* the calls of the parsers that have not returned, the running one last
  cursor   \* the number of bytes the running parser's deserializer has read

codecVars == <<v, cfg, mut, text, input, out, text2, sortImpl>>

objVars == <<obj, hist, iter, ret>>

stepVars == <<frames, cursor>>

vars ==
  <<v, cfg, mut, text, input, out, text2, pc, obj, hist, iter, ret, sortImpl, target,
    frames, cursor>>

(***************************************************************************)
(* Helpers on sequences.                                                   *)
(***************************************************************************)
Last(s) == s[Len(s)]

RECURSIVE Concat(_)
Concat(ss) == IF ss = <<>> THEN <<>> ELSE Head(ss) \o Concat(Tail(ss))

Repeat(c, n) == [i \in 1..n |-> c]

Range(s) == {s[i] : i \in 1..Len(s)}

(***************************************************************************)
(* funcparser: results.                                                    *)
(***************************************************************************)
nil == [kind |-> "nil"]

Empty == [empty |-> TRUE]

\* the zero value of an output type when a parser does not match
Zero == [zero |-> TRUE]

\* A result is tagged by its type k: "E" an ErrResult, "B" a BoolResult, "C" a
\* CombineResult.  Its field V holds what its method Valid() returns.
Err(err) == [k |-> "E", Err |-> err, V |-> err = nil]

OK(ok) == [k |-> "B", OK |-> ok, V |-> ok]

CErr(err) == [k |-> "C", OK |-> (err = nil), Err |-> err, V |-> err = nil]

COK(ok) == [k |-> "C", OK |-> ok, Err |-> nil, V |-> ok]

Valid(r) == r.V

\* a variant of Fatal for which no result is fatal
FatalNever(r) == FALSE

Fatal(r) == r.k # "B" /\ r.Err # nil

toC(r) ==
  CASE r.k = "E" -> CErr(r.Err)
    [] r.k = "B" -> COK(r.OK)
    [] r.k = "C" -> r

ToE(cr) == Err(cr.Err)

valid(R) ==
  CASE R = "B" -> OK(TRUE)
    [] R = "E" -> Err(nil)
    [] R = "C" -> COK(TRUE)

ok(R, b) ==
  CASE R = "B" -> OK(b)
    [] R = "C" -> COK(b)

(***************************************************************************)
(* funcparser: combinators.  A parser maps an input ii to [d, o, r]: the   *)
(* remaining input, the output and the result.  The variadic parsers take  *)
(* their arguments as P(k, ii), the k-th of n parsers.                     *)
(***************************************************************************)
Ret(d, o, r) == [d |-> d, o |-> o, r |-> r]

\* b, with a computed first
Then(a, b) == IF a = a THEN b ELSE b

LazyP(F(_), i) == F(i)

ChainP(P(_, _), n, R, ii) ==
  LET RECURSIVE loop(_, _, _)
      loop(k, ii2, res) ==
        IF k > n THEN Ret(ii2, res, valid(R))
        ELSE LET x == P(k, ii2) IN
             IF x.r.V THEN loop(k + 1, x.d, Append(res, x.o))
             ELSE Ret(ii, Zero, x.r)
  IN loop(1, ii, <<>>)

TryP(P(_, _), n, R, ii) ==
  LET RECURSIVE loop(_)
      loop(k) ==
        IF k > n THEN Ret(ii, Zero, ok(R, FALSE))
        ELSE LET x == P(k, ii) IN
             IF Fatal(x.r) THEN Ret(ii, Zero, x.r)
             ELSE IF x.r.V THEN x
             ELSE loop(k + 1)
  IN loop(1)

MapO(P(_), f(_), ii) ==
  LET x == P(ii) IN
  IF x.r.V THEN Ret(x.d, f(x.o), x.r)
  ELSE Ret(x.d, Zero, x.r)

MapR(P(_), f(_, _), ii) ==
  LET x == P(ii) IN Ret(x.d, x.o, f(x.d, x.r))

Validate(P(_), f(_), ii) ==
  LET x == P(ii) IN
  IF x.r.V
  THEN LET y == f(x.o) IN      \* y = [o, r]
       IF y.r.V THEN Ret(x.d, y.o, x.r)
       ELSE Ret(ii, Zero, y.r)
  ELSE Ret(ii, Zero, x.r)

ToC(P(_), ii) ==
  LET x == P(ii) IN Ret(x.d, x.o, toC(x.r))

Discard(P(_), ii) ==
  LET x == P(ii) IN Ret(x.d, Empty, x.r)

FlattenP(P(_, _), n, R, ii) ==
  MapO(LAMBDA i : ChainP(P, n, R, i), Concat, ii)

(***************************************************************************)
(* Bytes, and the numbers of strconv.  An integer magnitude is a numeral:  *)
(* its decimal digits, most significant first, without leading zeros (a    *)
(* uint64 does not fit TLC's integers).  A float64 is modelled by its      *)
(* shortest decimal expansion [cls, neg, ip, fp]: sign, integer-part       *)
(* numeral, fraction digits without trailing zeros; or it is NaN or an     *)
(* infinity.  The model is exact for decimals of at most 15 significant    *)
(* digits, which ParseFloat and FormatFloat(f, 'f', -1, 64) round-trip.    *)
(***************************************************************************)
NUL == "<NUL>"

Digits == <<"0", "1", "2", "3", "4", "5", "6", "7", "8", "9">>

IsDigit(b) == \E i \in 1..10 : Digits[i] = b

DigitVal(b) == (CHOOSE i \in 1..10 : Digits[i] = b) - 1

DigitChar(n) == Digits[n + 1]

\* unicode.IsSpace on a byte converted to a rune (Latin-1 range)
\* a variant of unicode.IsSpace that knows the blank only
IsSpaceBlank(b) == b = " "

IsSpace(b) == b \in {"\t", "\n", "<VT>", "\f", "\r", " ", "<NEL>", "<NBSP>"}

RECURSIVE StripLeadingZeros(_)
StripLeadingZeros(ds) ==
  IF Len(ds) > 1 /\ Head(ds) = 0 THEN StripLeadingZeros(Tail(ds)) ELSE ds

RECURSIVE StripTrailingZeros(_)
StripTrailingZeros(ds) ==
  IF ds # <<>> /\ Last(ds) = 0 THEN StripTrailingZeros(SubSeq(ds, 1, Len(ds) - 1))
  ELSE ds

RECURSIVE SeqLess(_, _)
SeqLess(a, b) ==
  IF b = <<>> THEN FALSE
  ELSE IF a = <<>> THEN TRUE
  ELSE IF Head(a) # Head(b) THEN Head(a) < Head(b)
  ELSE SeqLess(Tail(a), Tail(b))

\* a < b for numerals
NumLess(a, b) == Len(a) < Len(b) \/ (Len(a) = Len(b) /\ SeqLess(a, b))

MaxUint64 == <<1, 8, 4, 4, 6, 7, 4, 4, 0, 7, 3, 7, 0, 9, 5, 5, 1, 6, 1, 5>>

ErrRange(fn) == [kind |-> "NumError", Func |-> fn, Err |-> "value out of range"]

\* strconv.ErrSyntax, which Unquote returns as it is
ErrSyntax == [kind |-> "ErrSyntax", Err |-> "invalid syntax"]

\* strconv.ParseUint(s, 10, 64) on a non-empty run of digits: [o, err]
ParseUint(bb) ==
  LET n == StripLeadingZeros([i \in 1..Len(bb) |-> DigitVal(bb[i])]) IN
  IF NumLess(MaxUint64, n) THEN [o |-> MaxUint64, err |-> ErrRange("ParseUint")]
  ELSE [o |-> n, err |-> nil]

\* strconv.FormatUint(n, 10)
FormatUint(n) == [i \in 1..Len(n) |-> DigitChar(n[i])]

FloatZero == [cls |-> "fin", neg |-> FALSE, ip |-> <<0>>, fp |-> <<>>]

\* strconv.ParseFloat(s, 64) on digits '.' digits: [o, err]
ParseFloat(bb) ==
  LET dot == CHOOSE i \in 1..Len(bb) : bb[i] = "."
      ip  == [i \in 1..(dot - 1) |-> DigitVal(bb[i])]
      fp  == [i \in 1..(Len(bb) - dot) |-> DigitVal(bb[dot + i])]
  IN [o |-> [cls |-> "fin", neg |-> FALSE,
             ip |-> StripLeadingZeros(ip), fp |-> StripTrailingZeros(fp)],
      err |-> nil]

\* strconv.FormatFloat(f, 'f', -1, 64)
FormatFloat(f) ==
  CASE f.cls = "nan" -> <<"N", "a", "N">>
    [] f.cls = "inf" -> (IF f.neg THEN <<"-">> ELSE <<"+">>) \o <<"I", "n", "f">>
    [] f.cls = "fin" ->
         (IF f.neg THEN <<"-">> ELSE <<>>)
         \o FormatUint(f.ip)
         \o (IF f.fp = <<>> THEN <<>> ELSE <<".">> \o FormatUint(f.fp))

(***************************************************************************)
(* strconv.Quote and strconv.Unquote, on the bytes of the model.           *)
(***************************************************************************)
\* the single-letter escapes of Go: the letter after the backslash, the byte
EscapeLetters ==
  << <<"a", "<BEL>">>, <<"b", "<BS>">>, <<"f", "\f">>, <<"n", "\n">>,
     <<"r", "\r">>, <<"t", "\t">>, <<"v", "<VT>">> >>

IsEscapeLetter(c) == \E i \in 1..Len(EscapeLetters) : EscapeLetters[i][1] = c

IsControl(b) == \E i \in 1..Len(EscapeLetters) : EscapeLetters[i][2] = b

EscapeOf(b) == (CHOOSE e \in Range(EscapeLetters) : e[2] = b)[1]

ControlOf(c) == (CHOOSE e \in Range(EscapeLetters) : e[1] = c)[2]

\* the bytes Quote writes as \x and two hexadecimal digits: a control byte
\* without a letter, or a byte that is no UTF-8 text on its own
HexBytes == << <<"<NUL>", "0", "0">>, <<"<NEL>", "8", "5">>, <<"<NBSP>", "a", "0">> >>

IsHexByte(b) == \E i \in 1..Len(HexBytes) : HexBytes[i][1] = b

HexOf(b) == Tail(CHOOSE e \in Range(HexBytes) : e[1] = b)

HexDigits ==
  <<"0", "1", "2", "3", "4", "5", "6", "7", "8", "9", "a", "b", "c", "d", "e", "f">>

UpperHexDigits == <<"A", "B", "C", "D", "E", "F">>

\* strconv.unhex: whether c is a hexadecimal digit, and its value
IsHexDigit(c) == c \in Range(HexDigits) \/ c \in Range(UpperHexDigits)

hexVal(c) ==
  IF c \in Range(HexDigits) THEN (CHOOSE i \in 1..16 : HexDigits[i] = c) - 1
  ELSE (CHOOSE i \in 1..6 : UpperHexDigits[i] = c) + 9

RECURSIVE hexNumber(_)
hexNumber(s) ==
  IF s = <<>> THEN 0 ELSE 16 * hexNumber(SubSeq(s, 1, Len(s) - 1)) + hexVal(Last(s))

IsOctalDigit(c) == IsDigit(c) /\ DigitVal(c) < 8

\* the bytes 32 to 126; "<GRAVE>" is the byte 96
Ascii ==
  <<" ", "!", "\"", "#", "$", "%", "&", "'", "(", ")", "*", "+", ",", "-",
    ".", "/", "0", "1", "2", "3", "4", "5", "6", "7", "8", "9", ":", ";",
    "<", "=", ">", "?", "@", "A", "B", "C", "D", "E", "F", "G", "H", "I",
    "J", "K", "L", "M", "N", "O", "P", "Q", "R", "S", "T", "U", "V", "W",
    "X", "Y", "Z", "[", "\\", "]", "^", "_", "<GRAVE>", "a", "b", "c", "d", "e",
    "f", "g", "h", "i", "j", "k", "l", "m", "n", "o", "p", "q", "r", "s",
    "t", "u", "v", "w", "x", "y", "z", "{", "|", "}", "~">>

\* the byte of value n; "<byte>" is a byte the model does not name
byteOfCode(n) ==
  CASE n = 0 -> "<NUL>" [] n = 7 -> "<BEL>" [] n = 8 -> "<BS>" [] n = 9 -> "\t"
    [] n = 10 -> "\n" [] n = 11 -> "<VT>" [] n = 12 -> "\f" [] n = 13 -> "\r"
    [] n = 133 -> "<NEL>" [] n = 160 -> "<NBSP>"
    [] n \in 32..126 -> Ascii[n - 31]
    [] OTHER -> "<byte>"

\* the byte \x h1 h2 stands for
hexByte(h1, h2) == byteOfCode(16 * hexVal(h1) + hexVal(h2))

\* utf8.ValidRune: up to U+10FFFF and no surrogate half
ValidRune(n) == n >= 0 /\ n <= 1114111 /\ ~(n >= 55296 /\ n <= 57343)

\* the UTF-8 bytes of the rune n: its byte when n is below 128, else the
\* element "<rune>", which stands for the bytes of any other rune
runeOfCode(n) == IF n < 128 THEN byteOfCode(n) ELSE "<rune>"

quoteByte(b) ==
  IF b = "\"" \/ b = "\\" THEN <<"\\", b>>
  ELSE IF IsControl(b) THEN <<"\\", EscapeOf(b)>>
  ELSE IF IsHexByte(b) THEN <<"\\", "x">> \o HexOf(b)
  ELSE <<b>>

\* strconv.Quote(s)
Quote(s) == <<"\"">> \o Concat([i \in 1..Len(s) |-> quoteByte(s[i])]) \o <<"\"">>

\* strconv.UnquoteChar with quote '"', repeated over the body: [o, err]
RECURSIVE unquoteBody(_, _)
unquoteBody(s, acc) ==
  IF s = <<>> THEN [o |-> acc, err |-> nil]
  ELSE LET c == Head(s) IN
       IF c = "\"" \/ c = "\n" THEN [o |-> <<>>, err |-> ErrSyntax]
       ELSE IF c # "\\" THEN unquoteBody(Tail(s), Append(acc, c))
       ELSE IF Len(s) < 2 THEN [o |-> <<>>, err |-> ErrSyntax]
       ELSE LET e == s[2] IN
            IF e = "\\" \/ e = "\"" THEN unquoteBody(Tail(Tail(s)), Append(acc, e))
            ELSE IF IsEscapeLetter(e)
                 THEN unquoteBody(Tail(Tail(s)), Append(acc, ControlOf(e)))
            ELSE IF e = "x" /\ Len(s) >= 4 /\ IsHexDigit(s[3]) /\ IsHexDigit(s[4])
                 THEN unquoteBody(SubSeq(s, 5, Len(s)), Append(acc, hexByte(s[3], s[4])))
            ELSE IF e = "u" /\ Len(s) >= 6 /\ (\A i \in 3..6 : IsHexDigit(s[i]))
                      /\ ValidRune(hexNumber(SubSeq(s, 3, 6)))
                 THEN unquoteBody(SubSeq(s, 7, Len(s)),
                                  Append(acc, runeOfCode(hexNumber(SubSeq(s, 3, 6)))))
            ELSE IF e = "U" /\ Len(s) >= 10 /\ (\A i \in 3..10 : IsHexDigit(s[i]))
                      /\ s[3] = "0" /\ s[4] = "0"
                      /\ ValidRune(hexNumber(SubSeq(s, 5, 10)))
                 THEN unquoteBody(SubSeq(s, 11, Len(s)),
                                  Append(acc, runeOfCode(hexNumber(SubSeq(s, 5, 10)))))
            ELSE IF IsOctalDigit(e) /\ Len(s) >= 4 /\ IsOctalDigit(s[3]) /\ IsOctalDigit(s[4])
                      /\ 64 * DigitVal(e) + 8 * DigitVal(s[3]) + DigitVal(s[4]) <= 255
                 THEN unquoteBody(SubSeq(s, 5, Len(s)),
                                  Append(acc, byteOfCode(64 * DigitVal(e) + 8 * DigitVal(s[3])
                                                         + DigitVal(s[4]))))
            ELSE [o |-> <<>>, err |-> ErrSyntax]

\* strconv.Unquote(s) for a double-quoted s
Unquote(s) ==
  IF Len(s) < 2 \/ Head(s) # "\"" \/ Last(s) # "\""
  THEN [o |-> <<>>, err |-> ErrSyntax]
  ELSE unquoteBody(SubSeq(s, 2, Len(s) - 1), <<>>)

(***************************************************************************)
(* deserialize.go: cursor, errors and leaf parsers.                        *)
(***************************************************************************)
ErrUnmatchedQuote == [kind |-> "ErrUnmatchedQuote"]

ErrUnexpectedEndOfInput == [kind |-> "ErrUnexpectedEndOfInput"]

InvalidTokenError(tok, row, col) ==
  [kind |-> "InvalidTokenError", Token |-> tok, Row |-> row, Col |-> col]

deserializer(b, idx, row, col) == [b |-> b, idx |-> idx, row |-> row, col |-> col]

\* a variant of read that counts a newline as any other byte of the row
readInRow(d) ==
  IF d.idx < Len(d.b)
  THEN Ret(deserializer(d.b, d.idx + 1, d.row, d.col + 1), d.b[d.idx + 1], OK(TRUE))
  ELSE Ret(d, NUL, OK(FALSE))

read(d) ==
  IF d.idx < Len(d.b)
  THEN LET b == d.b[d.idx + 1] IN
       Ret(deserializer(d.b, d.idx + 1,
                        IF b = "\n" THEN d.row + 1 ELSE d.row,
                        IF b = "\n" THEN 1 ELSE d.col + 1),
           b, OK(TRUE))
  ELSE Ret(d, NUL, OK(FALSE))

\* a variant of Loc that gives the first column of the row
LocOfRow(d) == [Row |-> d.row, Col |-> 1]

Loc(d) == [Row |-> d.row, Col |-> d.col]

LocZero == [Row |-> 0, Col |-> 0]

node(start, end, arrayNodes, objectNodes) ==
  [objectNodes |-> objectNodes, arrayNodes |-> arrayNodes, start |-> start, end |-> end]

\* a variant of errNoMatch that reports the cursor after the byte it read
errNoMatchAfter(d) ==
  LET x == read(d) IN
  IF ~x.r.OK THEN ErrUnexpectedEndOfInput
  ELSE InvalidTokenError(x.o, x.d.row, x.d.col)

errNoMatch(d) ==
  LET x == read(d) IN
  IF ~x.r.OK THEN ErrUnexpectedEndOfInput
  ELSE InvalidTokenError(x.o, d.row, d.col)

errBoolResult(d, br) == IF br.OK THEN COK(TRUE) ELSE CErr(errNoMatch(d))

byteParser(b, d) ==
  LET x == read(d) IN
  IF x.r.OK /\ x.o = b THEN Ret(x.d, b, OK(TRUE))
  ELSE Ret(d, NUL, OK(FALSE))

\* The loops of the parsers read byte after byte.  advance(d, n) is the
\* cursor after n reads that succeed from d, and runLength(predicate, d) the
\* number of reads from d that succeed with a byte that satisfies predicate
\* before one that does not.
advance(d, n) ==
  LET nls == {j \in (d.idx + 1)..(d.idx + n) : d.b[j] = "\n"} IN
  deserializer(d.b, d.idx + n, d.row + Cardinality(nls),
               IF nls = {} THEN d.col + n
               ELSE d.idx + n + 1 - (CHOOSE j \in nls : \A k \in nls : k <= j))

runLength(predicate(_), d) ==
  LET stops == {j \in (d.idx + 1)..Len(d.b) : ~predicate(d.b[j])} IN
  IF stops = {} THEN Len(d.b) - d.idx
  ELSE (CHOOSE j \in stops : \A k \in stops : j <= k) - d.idx - 1

predicateParser(predicate(_), d) ==
  LET n == runLength(predicate, d) IN
  Ret(advance(d, n), SubSeq(d.b, d.idx + 1, d.idx + n), OK(n > 0))

digitsParser(d) == predicateParser(IsDigit, d)

trimSpaceParser(P(_), d) ==
  LET d2 == advance(d, runLength(IsSpace, d)) IN Then(d2, P(d2))

locParser(P(_), d) ==
  LET x == P(d) IN
  Ret(x.d, [start |-> Loc(d), end |-> Loc(x.d), v |-> x.o], x.r)

outputParser(P(_), d) ==
  MapO(LAMBDA i : locParser(P, i),
       LAMBDA loc : [value |-> loc.v, node |-> node(loc.start, loc.end, <<>>, <<>>)],
       d)

\* surroundParser with the before parsers Before(k, _), k in 1..nb, and the
\* after parsers After(k, _), k in 1..na
surroundParser(Before(_, _), nb, P(_), After(_, _), na, d) ==
  LET b == ChainP(Before, nb, "B", d) IN
  IF b.r.V
  THEN LET x == P(b.d) IN
       IF x.r.V
       THEN LET a == ChainP(After, na, "C", x.d) IN
            IF a.r.V THEN Ret(a.d, x.o, COK(TRUE))
            ELSE Ret(d, Zero, a.r)
       ELSE Ret(d, Zero, x.r)
  ELSE Ret(d, Zero, COK(b.r.OK))

\* The scan of rawStringParser, after the opening quote.  A byte is read in
\* escape when the run of backslashes that ends just before it, and starts
\* after d, has an odd length; the scan ends with the first quote that is
\* not read in escape, or with the end of the input.
\* a scan for which the end of the input is no match, and no error
stringScanNoMatch(d) ==
  LET inEscape(j) ==
        LET others == {k \in (d.idx + 1)..(j - 1) : d.b[k] # "\\"}
            from   == IF others = {} THEN d.idx
                      ELSE CHOOSE k \in others : \A k2 \in others : k2 <= k
        IN (j - 1 - from) % 2 = 1
      quotes == {j \in (d.idx + 1)..Len(d.b) : d.b[j] = "\"" /\ ~inEscape(j)}
  IN IF quotes = {}
     THEN Ret(d, Zero, COK(FALSE))
     ELSE LET end == CHOOSE j \in quotes : \A k \in quotes : j <= k IN
          Ret(advance(d, end - d.idx), SubSeq(d.b, d.idx + 1, end), COK(TRUE))

stringScan(d) ==
  LET inEscape(j) ==
        LET others == {k \in (d.idx + 1)..(j - 1) : d.b[k] # "\\"}
            from   == IF others = {} THEN d.idx
                      ELSE CHOOSE k \in others : \A k2 \in others : k2 <= k
        IN (j - 1 - from) % 2 = 1
      quotes == {j \in (d.idx + 1)..Len(d.b) : d.b[j] = "\"" /\ ~inEscape(j)}
  IN IF quotes = {}
     THEN Ret(advance(d, Len(d.b) - d.idx), Zero, CErr(ErrUnmatchedQuote))
     ELSE LET end == CHOOSE j \in quotes : \A k \in quotes : j <= k IN
          Ret(advance(d, end - d.idx), SubSeq(d.b, d.idx + 1, end), COK(TRUE))

rawStringParser(d) ==
  Validate(
    LAMBDA i0 :
      FlattenP(
        LAMBDA k, i :
          IF k = 1
          THEN ToC(LAMBDA i1 : ChainP(LAMBDA k1, i2 : byteParser("\"", i2), 1, "B", i1), i)
          ELSE stringScan(i),
        2, "C", i0),
    LAMBDA b :
      LET u == Unquote(b) IN
      IF u.err # nil THEN [o |-> <<>>, r |-> CErr(u.err)]
      ELSE [o |-> u.o, r |-> COK(TRUE)],
    d)

floatParser(d) ==
  Validate(
    LAMBDA i0 :
      ToC(LAMBDA i1 :
            FlattenP(
              LAMBDA k, i :
                CASE k = 1 -> digitsParser(i)
                  [] k = 2 -> ChainP(LAMBDA k1, i2 : byteParser(".", i2), 1, "B", i)
                  [] k = 3 -> digitsParser(i),
              3, "B", i1),
          i0),
    LAMBDA bb :
      LET f == ParseFloat(bb) IN
      IF f.err # nil THEN [o |-> FloatZero, r |-> CErr(f.err)]
      ELSE [o |-> f.o, r |-> COK(TRUE)],
    d)

\* a variant of intParser that takes what ParseUint returns with an error
intParserSaturating(d) ==
  Validate(
    LAMBDA i0 : ToC(digitsParser, i0),
    LAMBDA bb : [o |-> ParseUint(bb).o, r |-> COK(TRUE)],
    d)

intParser(d) ==
  Validate(
    LAMBDA i0 : ToC(digitsParser, i0),
    LAMBDA bb :
      LET n == ParseUint(bb) IN
      IF n.err # nil THEN [o |-> <<0>>, r |-> CErr(n.err)]
      ELSE [o |-> n.o, r |-> COK(TRUE)],
    d)

(***************************************************************************)
(* The Value types (genjson.go).  A Value is a record tagged by t.         *)
(***************************************************************************)
Null == [t |-> "null"]

Bool(b) == [t |-> "bool", b |-> b]

Number(Float, Integer, IsFloat, IsNeg) ==
  [t |-> "number", Float |-> Float, Integer |-> Integer,
   IsFloat |-> IsFloat, IsNeg |-> IsNeg]

String(s) == [t |-> "string", s |-> s]

Array(a) == [t |-> "array", a |-> a]

\* the zero Object: its map pointer m is nil
Object == [t |-> "object", m |-> nil]

(***************************************************************************)
(* container/list, as orderedDuplicateMap uses it.  An element is named by *)
(* the index at which PushBack allocated it; elems keeps every element     *)
(* ever allocated (its Value, and whether it is still in the list), order  *)
(* the elements in the list, front first.  The nil element is 0.           *)
(***************************************************************************)
listNew == [elems |-> <<>>, order |-> <<>>]

listFront(l) == IF l.order = <<>> THEN 0 ELSE Head(l.order)

\* PushBack as PushFront
listPushFront(l, val) ==
  LET e == Len(l.elems) + 1 IN
  [l |-> [elems |-> Append(l.elems, [Value |-> val, list |-> TRUE]),
          order |-> <<e>> \o l.order],
   e |-> e]

\* PushBack: [l, e], the list and the new element
listPushBack(l, val) ==
  LET e == Len(l.elems) + 1 IN
  [l |-> [elems |-> Append(l.elems, [Value |-> val, list |-> TRUE]),
          order |-> Append(l.order, e)],
   e |-> e]

RECURSIVE seqWithout(_, _)
seqWithout(s, e) ==
  IF s = <<>> THEN <<>>
  ELSE IF Head(s) = e THEN seqWithout(Tail(s), e)
  ELSE <<Head(s)>> \o seqWithout(Tail(s), e)

\* Remove: nothing happens unless e is an element of l
listRemove(l, e) ==
  IF l.elems[e].list
  THEN [elems |-> [l.elems EXCEPT ![e].list = FALSE], order |-> seqWithout(l.order, e)]
  ELSE l

\* Element.Next
elemNext(l, e) ==
  IF ~l.elems[e].list THEN 0
  ELSE LET i == CHOOSE j \in 1..Len(l.order) : l.order[j] = e IN
       IF i = Len(l.order) THEN 0 ELSE l.order[i + 1]

(***************************************************************************)
(* orderedDuplicateMap: [keys, m].  m maps a key to its entries            *)
(* [key, value], key being the list element of the entry.  A call on a nil *)
(* map pointer that reads a field panics; every operator returns a record  *)
(* whose panic field is "" when the call returned.                         *)
(***************************************************************************)
NoPanic == ""

NilDeref == "nil pointer dereference"

mapAt(m, k) == IF k \in DOMAIN m THEN m[k] ELSE <<>>

mapPut(m, k, es) == [x \in (DOMAIN m) \cup {k} |-> IF x = k THEN es ELSE m[x]]

mapDelete(m, k) == [x \in (DOMAIN m) \ {k} |-> m[x]]

RECURSIVE sumLens(_, _)
sumLens(m, ks) ==
  IF ks = {} THEN 0
  ELSE LET k == CHOOSE x \in ks : TRUE IN Len(m[k]) + sumLens(m, ks \ {k})

odmLen(o) == IF o = nil THEN 0 ELSE sumLens(o.m, DOMAIN o.m)

\* the iterator is its element e; it reads the map it was made from
odmIter(o) == [e |-> IF o # nil THEN listFront(o.keys) ELSE 0]

\* getAll that returns the values of the entries of k last first
odmGetAllReversed(o, k) ==
  IF o = nil THEN [panic |-> NilDeref]
  ELSE LET e == mapAt(o.m, k) IN
       IF Len(e) = 0 THEN [panic |-> NoPanic, values |-> <<>>, found |-> FALSE]
       ELSE [panic |-> NoPanic, values |-> [i \in 1..Len(e) |-> e[Len(e) + 1 - i].value],
             found |-> TRUE]

odmGetAll(o, k) ==
  IF o = nil THEN [panic |-> NilDeref]
  ELSE LET e == mapAt(o.m, k) IN
       IF Len(e) = 0 THEN [panic |-> NoPanic, values |-> <<>>, found |-> FALSE]
       ELSE [panic |-> NoPanic, values |-> [i \in 1..Len(e) |-> e[i].value],
             found |-> TRUE]

\* get that returns the value of the last entry of k
odmGetLast(o, k) ==
  IF o = nil THEN [panic |-> NilDeref]
  ELSE LET e == mapAt(o.m, k) IN
       IF Len(e) = 0 THEN [panic |-> NoPanic, value |-> nil, found |-> FALSE]
       ELSE [panic |-> NoPanic, value |-> e[Len(e)].value, found |-> TRUE]

odmGet(o, k) ==
  IF o = nil THEN [panic |-> NilDeref]
  ELSE LET e == mapAt(o.m, k) IN
       IF Len(e) = 0 THEN [panic |-> NoPanic, value |-> nil, found |-> FALSE]
       ELSE [panic |-> NoPanic, value |-> e[1].value, found |-> TRUE]

\* add, on a non-nil map: the map after the call
odmAdd(o, k, val) ==
  LET pb == listPushBack(o.keys, k) IN
  [keys |-> pb.l,
   m |-> mapPut(o.m, k, Append(mapAt(o.m, k), [key |-> pb.e, value |-> val]))]

RECURSIVE removeAll(_, _)
removeAll(l, es) ==
  IF es = <<>> THEN l ELSE removeAll(listRemove(l, Head(es).key), Tail(es))

\* remove, on a non-nil map: the map after the call
odmRemove(o, k) ==
  [keys |-> removeAll(o.keys, mapAt(o.m, k)), m |-> mapDelete(o.m, k)]

\* set without its call of remove
odmSetKeeping(o, k, val) == odmAdd(o, k, val)

odmSet(o, k, val) == odmAdd(odmRemove(o, k), k, val)

\* the index of the entry of es whose element is e, 0 if there is none
entryOf(es, e) ==
  IF \E i \in 1..Len(es) : es[i].key = e
  THEN CHOOSE i \in 1..Len(es) : es[i].key = e
  ELSE 0

\* orderedDuplicateMapIterator.next on iterator it over the map o
odmNext(it, o) ==
  IF it.e = 0 THEN [panic |-> NoPanic, ok |-> FALSE, it |-> it]
  ELSE LET key == o.keys.elems[it.e].Value
           es  == mapAt(o.m, key)
           i   == entryOf(es, it.e)
       IN IF i = 0 THEN [panic |-> "illegal map state"]
          ELSE [panic |-> NoPanic, ok |-> TRUE, key |-> key, value |-> es[i].value,
                it |-> [e |-> elemNext(o.keys, it.e)]]

(***************************************************************************)
(* The methods of Object.  A method that changes the object returns it in  *)
(* the field o.                                                            *)
(***************************************************************************)
objInit(o) ==
  IF o.m = nil THEN [o EXCEPT !.m = [keys |-> listNew, m |-> <<>>]] ELSE o

ObjGet(o, key) == odmGet(o.m, key)

ObjGetAll(o, key) == odmGetAll(o.m, key)

ObjSet(o, key, value) == [objInit(o) EXCEPT !.m = odmSet(objInit(o).m, key, value)]

ObjLen(o) == odmLen(o.m)

ObjAdd(o, key, value) == [objInit(o) EXCEPT !.m = odmAdd(objInit(o).m, key, value)]

ObjDelete(o, key) ==
  IF o.m = nil THEN [panic |-> NilDeref]
  ELSE [panic |-> NoPanic, o |-> [o EXCEPT !.m = odmRemove(o.m, key)]]

ObjIter(o) == odmIter(o.m)

ObjNext(it, o) == odmNext(it, o.m)

\* the pairs a new iteration yields until Next reports the end: [panic, pairs]
ObjPairs(o) ==
  LET RECURSIVE run(_, _)
      run(it, acc) ==
        LET n == ObjNext(it, o) IN
        IF n.panic # NoPanic THEN [panic |-> n.panic, pairs |-> acc]
        ELSE IF ~n.ok THEN [panic |-> NoPanic, pairs |-> acc]
        ELSE run(n.it, Append(acc, [key |-> n.key, value |-> n.value]))
  IN run(ObjIter(o), <<>>)

(***************************************************************************)
(* deserialize.go: the JSON grammar.                                       *)
(*                                                                         *)
(* arrayParser and objectParser refer back to jsonParserC / jsonParserE    *)
(* through LazyP.  The parsers are pure functions of the cursor and a      *)
(* composite reads its opening byte before it follows the reference, so    *)
(* the result of a parser at a cursor depends only on the results at later *)
(* cursors.  memo holds these results: memo.val[i] is what jsonParserC     *)
(* returns at the cursor that has read i bytes, and likewise memo.str for  *)
(* rawStringParser, memo.pos for positiveNumberParser, memo.num for        *)
(* numberParser and memo.elem for the key/value parser of objectParser.    *)
(* memoTable computes them from the end of the input backwards, which      *)
(* keeps the evaluation depth independent of the nesting of the input; a   *)
(* parser called at a cursor the table does not hold is computed directly. *)
(***************************************************************************)

literal(bytes, d) ==
  ChainP(LAMBDA k, i : byteParser(bytes[k], i), Len(bytes), "B", d)

nullParser(d) ==
  outputParser(
    LAMBDA i0 :
      ToC(LAMBDA i1 :
            MapO(LAMBDA i2 : literal(<<"n", "u", "l", "l">>, i2),
                 LAMBDA bb : Null,
                 i1),
          i0),
    d)

boolParser(d) ==
  outputParser(
    LAMBDA i0 :
      ToC(LAMBDA i1 :
            MapO(LAMBDA i2 :
                   TryP(LAMBDA k, i :
                          IF k = 1 THEN literal(<<"t", "r", "u", "e">>, i)
                          ELSE literal(<<"f", "a", "l", "s", "e">>, i),
                        2, "B", i2),
                 LAMBDA bb : Bool(bb = <<"t", "r", "u", "e">>),
                 i1),
          i0),
    d)

positiveNumberParser(d) ==
  TryP(LAMBDA k, i :
         IF k = 1
         THEN MapO(floatParser, LAMBDA f : Number(f, <<0>>, TRUE, FALSE), i)
         ELSE MapO(intParser, LAMBDA n : Number(FloatZero, n, FALSE, FALSE), i),
       2, "C", d)

\* A memo holds results of rawStringParser (str), positiveNumberParser (pos),
\* numberParser (num), elemParser (elem) and jsonParserC (val), each keyed by
\* the number of bytes its cursor has read.  memoAt is the parser P at d,
\* taken from the table t where t has it.
memoAt(t, P(_), d) == IF d.idx \in DOMAIN t THEN t[d.idx] ELSE P(d)

numberParser(memo, d) ==
  outputParser(
    LAMBDA i0 :
      MapO(LAMBDA i1 :
             TryP(LAMBDA k, i :
                    IF k = 1
                    THEN MapO(LAMBDA i2 :
                                surroundParser(
                                  LAMBDA kb, ib :
                                    Discard(LAMBDA i3 : byteParser("-", i3), ib),
                                  1,
                                  LAMBDA i4 : memoAt(memo.pos, positiveNumberParser, i4),
                                  LAMBDA ka, ia : Zero, 0,
                                  i2),
                              LAMBDA n : [n EXCEPT !.IsNeg = TRUE],
                              i)
                    ELSE memoAt(memo.pos, positiveNumberParser, i),
                  2, "C", i1),
           LAMBDA n : n,
           i0),
    d)

stringParser(memo, d) ==
  outputParser(
    LAMBDA i0 : MapO(LAMBDA i : memoAt(memo.str, rawStringParser, i), String, i0),
    d)

listParser(P(_), sep(_), endParser(_), d) ==
  LET RECURSIVE loop(_, _)
      loop(bb2, vs) ==
        LET e == endParser(bb2) IN
        IF e.r.V THEN Ret(e.d, vs, COK(TRUE))
        ELSE LET s == sep(bb2) IN
             IF s.r.V
             THEN LET x == P(s.d) IN
                  IF x.r.V THEN loop(x.d, Append(vs, x.o))
                  ELSE IF x.r.Err # nil THEN Ret(d, Zero, x.r)
                  ELSE Ret(d, Zero, CErr(errNoMatch(x.d)))
             ELSE Ret(d, Zero, CErr(errNoMatch(s.d)))
      e0 == endParser(d)
  IN IF e0.r.V THEN Ret(e0.d, <<>>, COK(TRUE))
     ELSE LET x0 == P(e0.d) IN
          IF x0.r.V THEN loop(x0.d, <<x0.o>>)
          ELSE Ret(d, Zero, x0.r)

compositeParser(start(_), end(_), sep(_), elem(_), d) ==
  surroundParser(
    LAMBDA k, i : start(i), 1,
    LAMBDA i : listParser(elem, sep, end, i),
    LAMBDA k, i : Zero, 0,
    d)

\* the three delimiter parsers of a composite
\* an opening delimiter that takes a separator after it
delimThenSep(b, d) ==
  LET x == byteParser(b, d)
      s == trimSpaceParser(LAMBDA j : byteParser(",", j), x.d)
  IN IF x.r.V /\ s.r.V THEN Ret(s.d, Empty, x.r)
     ELSE Ret(x.d, Empty, x.r)

delimParser(b, d) == Discard(LAMBDA i : byteParser(b, i), d)

\* a closing delimiter that takes a separator before it
trimDelimAfterSep(b, d) ==
  LET s == trimSpaceParser(LAMBDA j : byteParser(",", j), d) IN
  Discard(LAMBDA i : trimSpaceParser(LAMBDA j : byteParser(b, j), i),
          IF b # "," /\ s.r.V THEN s.d ELSE d)

trimDelimParser(b, d) ==
  Discard(LAMBDA i : trimSpaceParser(LAMBDA j : byteParser(b, j), i), d)

RECURSIVE jsonParserC(_, _)

arrayParser(memo, d) ==
  MapO(
    LAMBDA i0 :
      locParser(
        LAMBDA i1 :
          compositeParser(
            LAMBDA i : delimParser("[", i),
            LAMBDA i : trimDelimParser("]", i),
            LAMBDA i : trimDelimParser(",", i),
            LAMBDA i :
              LazyP(LAMBDA j : memoAt(memo.val, LAMBDA jj : jsonParserC(memo, jj), j), i),
            i1),
        i0),
    LAMBDA val :
      [value |-> Array([i \in 1..Len(val.v) |-> val.v[i].value]),
       node  |-> node(val.start, val.end,
                      [i \in 1..Len(val.v) |-> val.v[i].node], <<>>)],
    d)

jsonParserE(memo, d) ==
  trimSpaceParser(
    LAMBDA i0 :
      MapR(LAMBDA i1 :
             LazyP(LAMBDA j : memoAt(memo.val, LAMBDA jj : jsonParserC(memo, jj), j), i1),
           LAMBDA dd, r :
             IF r.V THEN Err(nil)
             ELSE IF r.Err # nil THEN ToE(r)
             ELSE Err(errNoMatch(dd)),
           i0),
    d)

\* the zero keyValue of objectParser, with its key or its value set
keyValueZero ==
  [key |-> [start |-> LocZero, end |-> LocZero, v |-> <<>>], value |-> Zero]

elemParser(memo, d) ==
  MapO(
    LAMBDA i0 :
      ChainP(
        LAMBDA k, i :
          IF k = 1
          THEN surroundParser(
                 LAMBDA kb, ib : Zero, 0,
                 LAMBDA i1 :
                   MapO(LAMBDA i2 :
                          locParser(LAMBDA i6 : memoAt(memo.str, rawStringParser, i6), i2),
                        LAMBDA s : [keyValueZero EXCEPT !.key = s],
                        i1),
                 LAMBDA ka, ia :
                   Discard(
                     LAMBDA i3 :
                       trimSpaceParser(
                         LAMBDA i4 :
                           MapR(LAMBDA i5 : byteParser(":", i5), errBoolResult, i4),
                         i3),
                     ia),
                 1,
                 i)
          ELSE MapO(LAMBDA i1 : ToC(LAMBDA i2 : LazyP(LAMBDA j : jsonParserE(memo, j), i2), i1),
                    LAMBDA o : [keyValueZero EXCEPT !.value = o],
                    i),
        2, "C", i0),
    LAMBDA kvs : [key |-> kvs[1].key, value |-> kvs[2].value],
    d)

\* the pairs added last first
RECURSIVE addAllBackwards(_, _)
addAllBackwards(o, kvs) ==
  IF kvs = <<>> THEN o
  ELSE addAllBackwards(ObjAdd(o, Last(kvs).key.v, Last(kvs).value.value),
                       SubSeq(kvs, 1, Len(kvs) - 1))

\* the loop of objectParser's Validate function: Add every pair, in order
RECURSIVE addAll(_, _)
addAll(o, kvs) ==
  IF kvs = <<>> THEN o
  ELSE addAll(ObjAdd(o, Head(kvs).key.v, Head(kvs).value.value), Tail(kvs))

objectParser(memo, d) ==
  Validate(
    LAMBDA i0 :
      locParser(
        LAMBDA i1 :
          compositeParser(
            LAMBDA i : delimParser("{", i),
            LAMBDA i : trimDelimParser("}", i),
            LAMBDA i : trimDelimParser(",", i),
            LAMBDA i :
              trimSpaceParser(
                LAMBDA j : memoAt(memo.elem, LAMBDA jj : elemParser(memo, jj), j), i),
            i1),
        i0),
    LAMBDA kvs :
      [o |-> [value |-> addAll(Object, kvs.v),
              node  |-> node(kvs.start, kvs.end, <<>>,
                             [i \in 1..Len(kvs.v) |->
                                [key |-> <<>>,
                                 keyStart |-> kvs.v[i].key.start,
                                 keyEnd |-> kvs.v[i].key.end,
                                 node |-> kvs.v[i].value.node]])],
       r |-> COK(TRUE)],
    d)

\* the k-th of the six parsers that jsonParserC hands to TryP
jsonForm(memo, k, i) ==
  CASE k = 1 -> nullParser(i)
    [] k = 2 -> boolParser(i)
    [] k = 3 -> memoAt(memo.num, LAMBDA j : numberParser(memo, j), i)
    [] k = 4 -> stringParser(memo, i)
    [] k = 5 -> arrayParser(memo, i)
    [] k = 6 -> objectParser(memo, i)

\* the TryP of jsonParserC
tryForms(memo, i0) == TryP(LAMBDA k, i : jsonForm(memo, k, i), 6, "C", i0)

jsonParserC(memo, d) == trimSpaceParser(LAMBDA i0 : tryForms(memo, i0), d)

\* The cursors at which the grammar runs jsonParserC with a chance of a
\* match: the ones after a "," and, before a byte a value can start with,
\* the first one, the ones after a "[" and the ones that follow a ":" or a
\* run of spaces.
valStart(b, i) ==
  \/ i > 0 /\ b[i] = ","
  \/ /\ i < Len(b)
     /\ b[i + 1] \in Range(Digits) \cup {"n", "t", "f", "-", "\"", "[", "{"}
     /\ i = 0 \/ b[i] \in {"[", ":"} \/ IsSpace(b[i])

\* The cursors at which the grammar runs rawStringParser, elemParser,
\* positiveNumberParser or numberParser with a chance of a match: the ones
\* at the first byte such a match has, after a byte that can come before it.
leafStart(b, i, first) ==
  /\ i < Len(b)
  /\ b[i + 1] \in first
  /\ i = 0 \/ IsSpace(b[i]) \/ b[i] \in {"[", "{", ",", ":", "-"}

\* the tables of memo, with the results at the cursor d that has read lo
\* bytes: first those of the parsers that read no table, then the others
memoLeaves(b, lo, d, memo) ==
  [memo EXCEPT
     !.str = IF leafStart(b, lo, {"\""})
             THEN (lo :> rawStringParser(d)) @@ @ ELSE @,
     !.pos = IF leafStart(b, lo, Range(Digits))
             THEN (lo :> positiveNumberParser(d)) @@ @ ELSE @]

memoNumber(b, lo, d, memo) ==
  [memo EXCEPT
     !.num = IF leafStart(b, lo, Range(Digits) \cup {"-"})
             THEN (lo :> numberParser(memo, d)) @@ @ ELSE @]

memoValue(b, lo, d, memo) ==
  [memo EXCEPT
     !.elem = IF leafStart(b, lo, {"\""})
              THEN (lo :> elemParser(memo, d)) @@ @ ELSE @,
     !.val  = IF valStart(b, lo)
              THEN (lo :> jsonParserC(memo, d)) @@ @ ELSE @]

\* memo holds its tables at the cursors after the hi-th; the result holds
\* them at the lo-th to the hi-th cursor too
RECURSIVE memoRange(_, _, _, _)
memoLower(b, lo, mid, upper) == Then(upper, memoRange(b, lo, mid, upper))

memoRange(b, lo, hi, memo) ==
  IF lo > hi THEN memo
  ELSE IF lo = hi
  THEN memoValue(b, lo, advance(deserializer(b, 0, 1, 1), lo),
         memoNumber(b, lo, advance(deserializer(b, 0, 1, 1), lo),
           memoLeaves(b, lo, advance(deserializer(b, 0, 1, 1), lo), memo)))
  ELSE memoLower(b, lo, (lo + hi) \div 2,
                 memoRange(b, (lo + hi) \div 2 + 1, hi, memo))

memoTable(b) ==
  memoRange(b, 0, Len(b),
            [str |-> <<>>, pos |-> <<>>, num |-> <<>>, elem |-> <<>>, val |-> <<>>])

\* a variant of deserializeReturn that takes bytes left after the value for
\* an error
deserializeReturnAtEnd(x) ==
  IF x.r.Err # nil THEN [output |-> Zero, err |-> x.r.Err]
  ELSE IF x.d.idx < Len(x.d.b) THEN [output |-> Zero, err |-> errNoMatch(x.d)]
  ELSE [output |-> x.o, err |-> nil]

\* the return statements of deserialize, x being what jsonParserE returned
deserializeReturn(x) ==
  IF x.r.Err # nil THEN [output |-> Zero, err |-> x.r.Err]
  ELSE [output |-> x.o, err |-> nil]

\* the cursor deserialize starts with
newDeserializer(b) == deserializer(b, 0, 1, 1)

parseWith(memo, b) == Then(memo, jsonParserE(memo, newDeserializer(b)))

\* deserialize: [output, err]
deserialize(b) == deserializeReturn(parseWith(memoTable(b), b))

\* the return statements of Deserialize, d being what deserialize returned
DeserializeReturn(d) ==
  IF d.err # nil THEN [value |-> nil, err |-> d.err]
  ELSE [value |-> d.output.value, err |-> nil]

\* Deserialize: [value, err]
Deserialize(b) == DeserializeReturn(deserialize(b))

(***************************************************************************)
(* unmarshal.go: decoding a Value into a variable of a Go type.            *)
(*                                                                         *)
(* A reflect.Type is a record with its Kind: [kind |-> "int8"],            *)
(* [kind |-> "slice", elem |-> T], [kind |-> "ptr", elem |-> T].  A        *)
(* reflect.Value is a type and whether it can be set.  What a variable     *)
(* holds is an int64Of, a uint64Of, a float, a boolOf, a stringOf, and for *)
(* a slice nil or a sliceOf.  An                                           *)
(* unmarshal method returns [err, set, val, panic]: its error, whether it  *)
(* assigned to the variable, what it assigned, and the panic that ended    *)
(* it.                                                                     *)
(***************************************************************************)
TypeNull == "null"

TypeBool == "bool"

TypeNumber == "number"

IntKinds == {"int", "int8", "int16", "int32", "int64"}

UintKinds == {"uint", "uint8", "uint16", "uint32", "uint64"}

FloatKinds == {"float32", "float64"}

Kind(kind) == [kind |-> kind]

SliceOf(elem) == [kind |-> "slice", elem |-> elem]

ArrayOf(elem) == [kind |-> "array", elem |-> elem]

PointerTo(elem) == [kind |-> "ptr", elem |-> elem]

\* a reflect.Value of type t
reflectValue(t, canSet) == [type |-> t, canSet |-> canSet]

\* reflect.Indirect
Indirect(vv) == IF vv.type.kind = "ptr" THEN reflectValue(vv.type.elem, TRUE) ELSE vv

MaxInt64 == <<9, 2, 2, 3, 3, 7, 2, 0, 3, 6, 8, 5, 4, 7, 7, 5, 8, 0, 7>>

TwoTo63 == <<9, 2, 2, 3, 3, 7, 2, 0, 3, 6, 8, 5, 4, 7, 7, 5, 8, 0, 8>>

\* the largest value of each signed kind; int has 64 bits on the 64-bit
\* platforms
maxInt ==
  [int8 |-> <<1, 2, 7>>, int16 |-> <<3, 2, 7, 6, 7>>,
   int32 |-> <<2, 1, 4, 7, 4, 8, 3, 6, 4, 7>>, int64 |-> MaxInt64, int |-> MaxInt64]

\* the magnitude of the least value of each signed kind
minInt ==
  [int8 |-> <<1, 2, 8>>, int16 |-> <<3, 2, 7, 6, 8>>,
   int32 |-> <<2, 1, 4, 7, 4, 8, 3, 6, 4, 8>>, int64 |-> TwoTo63, int |-> TwoTo63]

maxUint ==
  [uint8 |-> <<2, 5, 5>>, uint16 |-> <<6, 5, 5, 3, 5>>,
   uint32 |-> <<4, 2, 9, 4, 9, 6, 7, 2, 9, 5>>, uint64 |-> MaxUint64, uint |-> MaxUint64]

MaxFloat32 ==
  <<3, 4, 0, 2, 8, 2, 3, 4, 6, 6, 3, 8, 5, 2, 8, 8, 5, 9, 8, 1, 1, 7, 0, 4, 1, 8, 3, 4,
    8, 4, 5, 1, 6, 9, 2, 5, 4, 4, 0>>

\* What a variable holds.  the int64 with the sign neg and the magnitude mag
int64Of(neg, mag) == [neg |-> neg /\ mag # <<0>>, mag |-> mag]

uint64Of(mag) == [mag |-> mag]

boolOf(b) == [b |-> b]

stringOf(s) == [s |-> s]

\* a slice that is not nil
sliceOf(elems) == [elems |-> elems]

\* reflect.Value.OverflowInt
OverflowInt(rv, i) ==
  IF i.neg THEN NumLess(minInt[rv.type.kind], i.mag)
  ELSE NumLess(maxInt[rv.type.kind], i.mag)

\* reflect.Value.OverflowUint
OverflowUint(rv, u) == NumLess(maxUint[rv.type.kind], u)

\* a < b for finite floats without their signs
magLess(a, b) == NumLess(a.ip, b.ip) \/ (a.ip = b.ip /\ SeqLess(a.fp, b.fp))

isZero(f) == f.cls = "fin" /\ f.ip = <<0>> /\ f.fp = <<>>

\* a == b for float64s
floatEq(a, b) ==
  /\ a.cls # "nan" /\ b.cls # "nan" /\ a.cls = b.cls
  /\ \/ isZero(a) /\ isZero(b)
     \/ a = b

\* a < b for float64s
floatLess(a, b) ==
  /\ a.cls # "nan" /\ b.cls # "nan" /\ ~floatEq(a, b)
  /\ IF a.neg # b.neg THEN a.neg
     ELSE IF a.cls = "inf" THEN a.neg
     ELSE IF b.cls = "inf" THEN ~b.neg
     ELSE IF a.neg THEN magLess(b, a) ELSE magLess(a, b)

\* reflect.Value.OverflowFloat: of the two float kinds float32 alone has
\* finite float64s outside its range
OverflowFloat(rv, f) ==
  /\ rv.type.kind = "float32"
  /\ f.cls = "fin" /\ NumLess(MaxFloat32, f.ip)

\* float64(u) of a uint64: the integers up to 2^53 convert exactly; of the
\* larger ones the model holds those next to 2^63 and 2^64, which round up
\* to them, and ones a float64 holds exactly
float64OfUint(u) ==
  [cls |-> "fin", neg |-> FALSE, fp |-> <<>>,
   ip |-> CASE u = MaxInt64  -> TwoTo63
            [] u = MaxUint64 -> <<1, 8, 4, 4, 6, 7, 4, 4, 0, 7, 3, 7, 0, 9, 5, 5, 1, 6, 1, 6>>
            [] OTHER -> u]

\* uint64(f) of a float64: the values the conversion can produce.  The
\* fraction is discarded; for a float whose integral part no uint64 holds the
\* result depends on the implementation.
uint64OfFloat(f) ==
  IF f.cls = "fin" /\ (~f.neg \/ f.ip = <<0>>) /\ ~NumLess(MaxUint64, f.ip) THEN {f.ip}
  ELSE {<<0>>, TwoTo63, MaxUint64}

\* float32(f) of a float64: the floats with an integral part below 2^24 and
\* a fraction of halves and quarters convert exactly, and the zero fraction
\* of a larger one is kept; roundedTo32 stands for the nearest float32 of
\* any other
float32Of(f) ==
  IF f.cls # "fin" THEN f
  ELSE IF f.fp \in {<<>>, <<5>>, <<2, 5>>, <<7, 5>>} /\ Len(f.ip) <= 7 THEN f
  ELSE [cls |-> "roundedTo32", of |-> f]

ErrInvalidValue == [kind |-> "ErrInvalidValue"]

ErrCannotSet == [kind |-> "ErrCannotSet"]

UnmarshalState(nd, key) == [node |-> nd, key |-> key]

UnmarshalError(Cause, Field, loc) ==
  [kind |-> "UnmarshalError", Cause |-> Cause, Field |-> Field, Loc |-> loc]

unmarshalError(s, e) ==
  UnmarshalError(e, s.key, IF s.node # nil THEN s.node.start ELSE nil)

InvalidTypeError(ValueType, JSONType) ==
  [kind |-> "InvalidTypeError", ValueType |-> ValueType, JSONType |-> JSONType]

unmarshalInvalidTypeError(s, t, jt) == unmarshalError(s, InvalidTypeError(t, jt))

overflowError(t, number) ==
  [kind |-> "OverflowError", ValueType |-> t, Number |-> number]

fractionalFloatError(t, number) ==
  [kind |-> "FractionalFloatError", ValueType |-> t, Number |-> number]

negativeUintError(t, number) ==
  [kind |-> "NegativeUintError", ValueType |-> t, Number |-> number]

\* the ways an unmarshal method ends
failed(err) == [err |-> err, set |-> FALSE, val |-> Zero, panic |-> NoPanic]

returned == [err |-> nil, set |-> FALSE, val |-> Zero, panic |-> NoPanic]

panicked(msg) == [err |-> nil, set |-> FALSE, val |-> Zero, panic |-> msg]

\* set: r.Set(reflect.ValueOf(vv).Convert(r.Type()))
set(r, val) ==
  [err |-> nil, set |-> TRUE, panic |-> NoPanic,
   val |-> IF r.type.kind = "float32" THEN float32Of(val) ELSE val]

NullUnmarshal(s, vv) ==
  IF vv.type.kind \in {"ptr", "slice", "array", "map", "interface"} THEN returned
  ELSE failed(unmarshalInvalidTypeError(s, vv.type, TypeNull))

BoolUnmarshal(s, b, vv) ==
  LET rv == Indirect(vv) IN
  IF rv.type.kind = "bool" THEN set(rv, boolOf(b.b))
  ELSE failed(unmarshalInvalidTypeError(s, vv.type, TypeBool))

\* looseUint64: [u, err]
looseUint64(n, t) ==
  IF ~n.IsFloat THEN [u |-> n.Integer, err |-> nil]
  ELSE IF floatLess(float64OfUint(MaxInt64), n.Float)
  THEN [u |-> <<0>>, err |-> overflowError(t, n)]
  ELSE LET us == {u \in uint64OfFloat(n.Float) : floatEq(n.Float, float64OfUint(u))} IN
       IF us = {} THEN [u |-> <<0>>, err |-> fractionalFloatError(t, n)]
       ELSE [u |-> CHOOSE u \in us : TRUE, err |-> nil]

\* Number.float64
float64(n) == IF ~n.IsFloat THEN float64OfUint(n.Integer) ELSE n.Float

NumberUnmarshal(s, n, vv) ==
  LET rv == Indirect(vv)
      l  == looseUint64(n, rv.type)
      f  == float64(n)
  IN CASE rv.type.kind \in IntKinds ->
            IF l.err # nil THEN failed(unmarshalError(s, l.err))
            ELSE IF NumLess(MaxInt64, l.u)
            THEN failed(unmarshalError(s, overflowError(rv.type, n)))
            ELSE IF OverflowInt(rv, int64Of(n.IsNeg, l.u))
            THEN failed(unmarshalError(s, overflowError(rv.type, n)))
            ELSE set(rv, int64Of(n.IsNeg, l.u))
       [] rv.type.kind \in UintKinds ->
            IF n.IsNeg THEN failed(unmarshalError(s, negativeUintError(rv.type, n)))
            ELSE IF l.err # nil THEN failed(unmarshalError(s, l.err))
            ELSE IF OverflowUint(rv, l.u)
            THEN failed(unmarshalError(s, overflowError(rv.type, n)))
            ELSE set(rv, uint64Of(l.u))
       [] rv.type.kind \in FloatKinds ->
            IF OverflowFloat(rv, f)
            THEN failed(unmarshalError(s, overflowError(rv.type, n)))
            ELSE set(rv, f)
       [] OTHER -> failed(unmarshalInvalidTypeError(s, vv.type, TypeNumber))

StringUnmarshal(s, st, vv) ==
  LET rv == Indirect(vv) IN
  IF rv.type.kind = "string" THEN set(rv, stringOf(st.s))
  ELSE failed(unmarshalInvalidTypeError(s, vv.type, TypeNull))

ObjectUnmarshal(s, vv) == panicked("not implemented")

\* strconv.Itoa of a natural number
RECURSIVE Itoa(_)
Itoa(i) == IF i < 10 THEN <<DigitChar(i)>> ELSE Itoa(i \div 10) \o <<DigitChar(i % 10)>>

\* the zero value of a type
zeroOf(t) ==
  CASE t.kind \in IntKinds -> int64Of(FALSE, <<0>>)
    [] t.kind \in UintKinds -> uint64Of(<<0>>)
    [] t.kind \in FloatKinds -> FloatZero
    [] t.kind = "bool" -> boolOf(FALSE)
    [] t.kind = "string" -> stringOf(<<>>)
    [] OTHER -> nil

\* reflect.Append
reflectAppend(outv, elem) ==
  IF outv = nil THEN sliceOf(<<elem>>) ELSE sliceOf(Append(outv.elems, elem))

\* the state frame ss that Array.unmarshal makes for its element i; taking
\* the address of an element arrayNodes does not have panics
frame(s, i) ==
  IF s.node # nil /\ i >= Len(s.node.arrayNodes)
  THEN [panic |-> "index out of range"]
  ELSE [panic |-> NoPanic,
        ss |-> UnmarshalState(IF s.node # nil THEN s.node.arrayNodes[i + 1] ELSE nil,
                              Append(s.key, Itoa(i)))]

RECURSIVE valueUnmarshal(_, _, _)

\* the helper unmarshal
unmarshal(s, value, vv) ==
  IF ~vv.canSet THEN failed(unmarshalError(s, ErrCannotSet))
  ELSE valueUnmarshal(s, value, vv)

\* the loop of Array.unmarshal from its element i on, outv being the slice out
\* built so far; each element is decoded with the state s of the array
RECURSIVE sliceLoop(_, _, _, _, _)
sliceLoop(s, a, rv, i, outv) ==
  IF i >= Len(a.a) THEN [err |-> nil, set |-> TRUE, val |-> outv, panic |-> NoPanic]
  ELSE IF frame(s, i).panic # NoPanic THEN panicked(frame(s, i).panic)
  ELSE LET r == unmarshal(s, a.a[i + 1], reflectValue(rv.type.elem, TRUE)) IN
       IF r.panic # NoPanic \/ r.err # nil THEN r
       ELSE sliceLoop(s, a, rv, i + 1,
                      reflectAppend(outv, IF r.set THEN r.val ELSE zeroOf(rv.type.elem)))

ArrayUnmarshal(s, a, vv) ==
  LET rv == Indirect(vv) IN
  CASE rv.type.kind = "slice" -> sliceLoop(s, a, rv, 0, nil)
    [] rv.type.kind = "array" ->
         panicked("unmarshaling into arrays is not implemented yet")
    [] OTHER -> failed(unmarshalInvalidTypeError(s, vv.type, TypeNull))

\* value.unmarshal(s, v): the method of the Value's type
valueUnmarshal(s, value, vv) ==
  CASE value.t = "null"   -> NullUnmarshal(s, vv)
    [] value.t = "bool"   -> BoolUnmarshal(s, value, vv)
    [] value.t = "number" -> NumberUnmarshal(s, value, vv)
    [] value.t = "string" -> StringUnmarshal(s, value, vv)
    [] value.t = "array"  -> ArrayUnmarshal(s, value, vv)
    [] value.t = "object" -> ObjectUnmarshal(s, vv)

\* Unmarshaler.unmarshal; arg is what the caller passed for v: a pointer to
\* a variable of the type arg.elem, a nil pointer, or something else
UnmarshalerUnmarshal(value, nd, arg) ==
  IF arg.kind # "ptr" \/ arg.isNil THEN failed(ErrInvalidValue)
  ELSE valueUnmarshal(UnmarshalState(nd, <<>>), value,
                      reflectValue(PointerTo(arg.elem), FALSE))

\* the return statements of Unmarshaler.Unmarshal, d being what deserialize
\* returned
UnmarshalReturn(d, arg) ==
  IF d.err # nil THEN failed(d.err)
  ELSE UnmarshalerUnmarshal(d.output.value, d.output.node, arg)

\* Unmarshal(data, v)
Unmarshal(data, arg) == UnmarshalReturn(deserialize(data), arg)

\* Unmarshaler.UnmarshalValue(value, vv)
UnmarshalValue(value, arg) == UnmarshalerUnmarshal(value, nil, arg)

(***************************************************************************)
(* The Serializer: [Indent, Prefix, KeyValueGap, SortKeys].  append        *)
(* returns the bytes the append method of a Value adds to the buffer.      *)
(***************************************************************************)
\* the bytes of the model in the order of their values: the order of the
\* string comparison of Go
ByteOrder ==
  <<"<NUL>", "<BEL>", "<BS>", "\t", "\n", "<VT>", "\f", "\r", " ", "\"", "+", ",",
    "-", ".", "/", "0", "1", "2", "3", "4", "5", "6", "7", "8", "9", ":", "I",
    "N", "[", "\\", "]", "a", "b", "c", "d", "e", "f", "g", "h", "i", "j", "k",
    "l", "m", "n", "o", "p", "q", "r", "s", "t", "u", "v", "w", "x", "y", "z",
    "{", "}", "<NEL>", "<NBSP>">>

byteRank(b) == CHOOSE i \in 1..Len(ByteOrder) : ByteOrder[i] = b

\* pairs[i].key < pairs[j].key
keyLess(a, b) ==
  SeqLess([i \in 1..Len(a) |-> byteRank(a[i])], [i \in 1..Len(b) |-> byteRank(b[i])])

\* insertionSort_func
insertionSort(pairs) ==
  LET RECURSIVE sink(_, _)
      sink(ps, j) ==
        IF j > 1 /\ keyLess(ps[j].key, ps[j - 1].key)
        THEN sink([ps EXCEPT ![j] = ps[j - 1], ![j - 1] = ps[j]], j - 1)
        ELSE ps
      RECURSIVE outer(_, _)
      outer(ps, i) == IF i > Len(ps) THEN ps ELSE outer(sink(ps, i), i + 1)
  IN outer(pairs, 2)

\* the ShellSort pass with gap 6 that quickSort_func makes before its
\* insertion sort, from element i on
RECURSIVE shellPass(_, _)
shellPass(ps, i) ==
  IF i > Len(ps) THEN ps
  ELSE IF keyLess(ps[i].key, ps[i - 6].key)
       THEN shellPass([ps EXCEPT ![i] = ps[i - 6], ![i - 6] = ps[i]], i + 1)
       ELSE shellPass(ps, i + 1)

\* the two implementations of sort.Slice: quickSort_func (Go 1.18) and
\* pdqsort_func (Go 1.19 and later)
SortImpls == {"quickSort", "pdqsort"}

\* sort.Slice(pairs, less) on a slice of at most 12 elements: pdqsort_func is
\* an insertion sort, quickSort_func a ShellSort pass and an insertion sort
sortPairs(pairs) ==
  IF sortImpl = "quickSort" THEN insertionSort(shellPass(pairs, 7))
  ELSE insertionSort(pairs)

appendIndent(s, level) ==
  IF s.Indent # 0
  THEN <<"\n">> \o Repeat(" ", s.Prefix) \o Repeat(" ", s.Indent * level)
  ELSE <<>>

appendString(str) == Quote(str)

NullAppend == <<"n", "u", "l", "l">>

BoolAppend(b) ==
  IF b.b THEN <<"t", "r", "u", "e">> ELSE <<"f", "a", "l", "s", "e">>

\* a float without the ".0" that tells it from an integer
NumberAppendBare(n) ==
  (IF n.IsNeg THEN <<"-">> ELSE <<>>)
  \o (IF n.IsFloat THEN FormatFloat(n.Float) ELSE FormatUint(n.Integer))

NumberAppend(n) ==
  (IF n.IsNeg THEN <<"-">> ELSE <<>>)
  \o (IF n.IsFloat
      THEN LET str == FormatFloat(n.Float) IN
           IF "." \in Range(str) THEN str ELSE str \o <<".", "0">>
      ELSE FormatUint(n.Integer))

StringAppend(str) == appendString(str.s)

RECURSIVE append(_, _, _)
\* a variant of Array.append that indents before every closing bracket
ArrayAppendIndented(a, s, level) ==
  <<"[">>
  \o Concat([i \in 1..Len(a.a) |->
               (IF i > 1 THEN <<",">> ELSE <<>>)
               \o appendIndent(s, level + 1)
               \o append(a.a[i], s, level + 1)])
  \o appendIndent(s, level)
  \o <<"]">>

ArrayAppend(a, s, level) ==
  <<"[">>
  \o Concat([i \in 1..Len(a.a) |->
               (IF i > 1 THEN <<",">> ELSE <<>>)
               \o appendIndent(s, level + 1)
               \o append(a.a[i], s, level + 1)])
  \o (IF Len(a.a) > 0 THEN appendIndent(s, level) ELSE <<>>)
  \o <<"]">>

ObjectAppend(o, s, level) ==
  LET iterated == ObjPairs(o).pairs
      pairs    == IF s.SortKeys THEN sortPairs(iterated) ELSE iterated
  IN <<"{">>
     \o Concat([i \in 1..Len(pairs) |->
                  (IF i > 1 THEN <<",">> ELSE <<>>)
                  \o appendIndent(s, level + 1)
                  \o appendString(pairs[i].key)
                  \o <<":">>
                  \o Repeat(" ", s.KeyValueGap)
                  \o append(pairs[i].value, s, level + 1)])
     \o (IF Len(pairs) > 0 THEN appendIndent(s, level) ELSE <<>>)
     \o <<"}">>

\* v.append(s, level, buf): the method of the variant of v
append(val, s, level) ==
  CASE val.t = "null"   -> NullAppend
    [] val.t = "bool"   -> BoolAppend(val)
    [] val.t = "number" -> NumberAppend(val)
    [] val.t = "string" -> StringAppend(val)
    [] val.t = "array"  -> ArrayAppend(val, s, level)
    [] val.t = "object" -> ObjectAppend(val, s, level)

Serializer(Indent, Prefix, KeyValueGap, SortKeys) ==
  [Indent |-> Indent, Prefix |-> Prefix, KeyValueGap |-> KeyValueGap,
   SortKeys |-> SortKeys]

\* s.Serialize(v)
Serialize(s, val) == Repeat(" ", s.Prefix) \o append(val, s, 0)

(***************************************************************************)
(* A caller of the codec.  It serializes a Value v under a configuration   *)
(* cfg, hands the text to Deserialize, as it is or altered in one place (a *)
(* comma put in, or the text cut inside a string), and serializes the      *)
(* Value it gets back under cfg again.                                     *)
(***************************************************************************)
\* the value of a variable the caller has not set, or does not use
Idle == [idle |-> TRUE]

NoIter == [none |-> TRUE]

NoCall == [op |-> "none", panic |-> NoPanic]

\* the number of elements of an Array, and of pairs of an Object
MaxElems == 2

Float(neg, ip, fp) == [cls |-> "fin", neg |-> neg, ip |-> ip, fp |-> fp]

NaN == [cls |-> "nan"]

Inf(neg) == [cls |-> "inf", neg |-> neg]

\* the Object that has had Add called for the pairs ps, in order
RECURSIVE ObjectOf(_)
ObjectOf(ps) ==
  IF ps = <<>> THEN Object
  ELSE ObjAdd(ObjectOf(SubSeq(ps, 1, Len(ps) - 1)), Last(ps).key, Last(ps).value)

\* the sequences over S of at most n elements
RECURSIVE SeqsUpTo(_, _)
SeqsUpTo(S, n) ==
  IF n = 0 THEN {<<>>}
  ELSE SeqsUpTo(S, n - 1) \cup {Append(q, x) : q \in SeqsUpTo(S, n - 1), x \in S}

Texts == {<<>>, <<"a">>, <<"\"">>, <<"\\", "\"">>, <<"a", "\\">>, <<"\n", "<NUL>", "b">>}

Magnitudes == {<<0>>, <<1, 2>>, MaxUint64}

\* numbers whose float magnitude is finite and carries no sign
Numbers ==
  {Number(FloatZero, n, FALSE, neg) : n \in Magnitudes, neg \in BOOLEAN}
  \cup {Number(Float(FALSE, f[1], f[2]), <<0>>, TRUE, neg) :
          f \in {<< <<1>>, <<5>> >>, << <<2>>, <<>> >>, << <<0>>, <<0, 2, 5>> >>},
          neg \in BOOLEAN}
  \cup {Number(Float(FALSE, <<1>>, <<5>>), <<7>>, FALSE, FALSE)}

\* numbers a program can build whose float magnitude is negative, negative
\* zero, infinite or not a number
OddNumbers ==
  {Number(f, <<0>>, TRUE, neg) :
     f \in {Float(TRUE, <<1>>, <<5>>), Float(TRUE, <<0>>, <<>>), NaN, Inf(FALSE), Inf(TRUE)},
     neg \in BOOLEAN}

Leaves ==
  {Null, Bool(TRUE), Bool(FALSE)} \cup Numbers \cup OddNumbers
  \cup {String(t) : t \in Texts}

\* the elements of the arrays
Elems ==
  {Number(FloatZero, <<1, 2>>, FALSE, TRUE), String(<<"a", "\"">>),
   ObjectOf(<<[key |-> <<"a">>, value |-> Array(<<Bool(TRUE)>>)]>>)}

\* the pairs of the objects
Pairs ==
  {[key |-> <<"a">>, value |-> Number(Float(FALSE, <<1>>, <<5>>), <<0>>, TRUE, FALSE)],
   [key |-> <<"a">>, value |-> String(<<"b", "\\">>)],
   [key |-> <<"b", "\"">>, value |-> Array(<<Object, Array(<<>>)>>)]}

\* an object of seven pairs, the key of the first two being the same
SevenPairs ==
  <<[key |-> <<"b">>, value |-> Bool(TRUE)], [key |-> <<"b">>, value |-> Bool(FALSE)],
    [key |-> <<"c">>, value |-> Null], [key |-> <<"d">>, value |-> Null],
    [key |-> <<"e">>, value |-> Null], [key |-> <<"f">>, value |-> Null],
    [key |-> <<"a">>, value |-> Null]>>

Values ==
  Leaves
  \cup {Array(q) : q \in SeqsUpTo(Elems, MaxElems)}
  \cup {ObjectOf(q) : q \in SeqsUpTo(Pairs, MaxElems)}
  \cup {ObjectOf(SevenPairs)}

Configs ==
  {Serializer(0, 0, 0, FALSE), Serializer(2, 0, 1, FALSE), Serializer(1, 1, 0, TRUE),
   Serializer(0, 2, 2, FALSE)}

\* The places of a text t.  Place p lies between t[p] and t[p + 1]; it is
\* inside a string when t[1..p] holds an odd number of quotes that no
\* backslash escapes.
escaped(t, j) ==
  LET others == {k \in 1..(j - 1) : t[k] # "\\"}
      from   == IF others = {} THEN 0 ELSE CHOOSE k \in others : \A k2 \in others : k2 <= k
  IN (j - 1 - from) % 2 = 1

inString(t, p) ==
  Cardinality({j \in 1..p : t[j] = "\"" /\ ~escaped(t, j)}) % 2 = 1

\* the last byte before place p, and the first one after it, that is no
\* space; "" if there is none
tokenBefore(t, p) ==
  LET js == {j \in 1..p : ~IsSpace(t[j])} IN
  IF js = {} THEN "" ELSE t[CHOOSE j \in js : \A k \in js : k <= j]

tokenAfter(t, p) ==
  LET js == {j \in (p + 1)..Len(t) : ~IsSpace(t[j])} IN
  IF js = {} THEN "" ELSE t[CHOOSE j \in js : \A k \in js : j <= k]

\* a comma at place p comes after the last element of an array or object
trailingPlaces(t) ==
  {p \in 1..(Len(t) - 1) :
     /\ ~inString(t, p)
     /\ tokenAfter(t, p) \in {"]", "}"}
     /\ tokenBefore(t, p) \notin {"[", "{", ","}}

\* a comma at place p is the first token after the "[" of an array
leadingPlaces(t) ==
  {p \in 1..(Len(t) - 1) : ~inString(t, p) /\ tokenBefore(t, p) = "["}

\* a text cut at place p ends after the opening quote of a string and before
\* the quote that closes it
cutPlaces(t) == {p \in 1..(Len(t) - 1) : inString(t, p)}

NoAlteration == [kind |-> "none", at |-> 0]

Alterations(t) ==
  {NoAlteration}
  \cup {[kind |-> "trailing", at |-> p] : p \in trailingPlaces(t)}
  \cup {[kind |-> "leading", at |-> p] : p \in leadingPlaces(t)}
  \cup {[kind |-> "cut", at |-> p] : p \in cutPlaces(t)}

altered(t, m) ==
  CASE m.kind = "none" -> t
    [] m.kind \in {"trailing", "leading"} ->
         SubSeq(t, 1, m.at) \o <<",">> \o SubSeq(t, m.at + 1, Len(t))
    [] m.kind = "cut" -> SubSeq(t, 1, m.at)

Init ==
  /\ v \in Values
  /\ cfg \in Configs
  /\ sortImpl \in (IF cfg.SortKeys THEN SortImpls ELSE {"pdqsort"})
  /\ pc = "start"
  /\ mut = Idle /\ text = Idle /\ input = Idle /\ out = Idle /\ text2 = Idle
  /\ obj = Object /\ hist = <<>> /\ iter = NoIter /\ ret = NoCall
  /\ target = Idle /\ frames = Idle /\ cursor = Idle

DoSerialize ==
  /\ pc = "start"
  /\ text' = Serialize(cfg, v)
  /\ pc' = "serialized"
  /\ UNCHANGED <<v, cfg, mut, input, out, text2, sortImpl, objVars, target, stepVars>>

Alter(m) ==
  /\ pc = "serialized"
  /\ mut' = m
  /\ input' = altered(text, m)
  /\ pc' = "altered"
  /\ UNCHANGED <<v, cfg, text, out, text2, sortImpl, objVars, target, stepVars>>

DoDeserialize ==
  /\ pc = "altered"
  /\ out' = Deserialize(input)
  /\ pc' = "parsed"
  /\ UNCHANGED <<v, cfg, mut, text, input, text2, sortImpl, objVars, target, stepVars>>

DoReserialize ==
  /\ pc = "parsed" /\ out.err = nil
  /\ text2' = Serialize(cfg, out.value)
  /\ pc' = "done"
  /\ UNCHANGED <<v, cfg, mut, text, input, out, sortImpl, objVars, target, stepVars>>

Next ==
  \/ DoSerialize
  \/ pc = "serialized" /\ \E m \in Alterations(text) : Alter(m)
  \/ DoDeserialize
  \/ DoReserialize

Spec == Init /\ [][Next]_vars

(***************************************************************************)
(* A caller of the Object methods.  The object is the zero Object or the   *)
(* one Deserialize returns for "{}"; the caller then calls Add, Set,       *)
(* Delete, Get, GetAll, Len, Iter and Next in any order.  A call that      *)
(* panics ends the program.                                                *)
(***************************************************************************)
\* the number of calls of Add, Set and Delete in a run
MaxCalls == 3

Keys == {<<"a">>, <<"b">>}

\* the value the next Add or Set passes: a Number no earlier call has passed
nextValue == Number(FloatZero, <<Len(hist)>>, FALSE, FALSE)

ObjInit ==
  /\ \E from \in {"zero", "parsed"} :
       /\ hist = <<[op |-> from]>>
       /\ obj = IF from = "zero" THEN Object ELSE Deserialize(<<"{", "}">>).value
  /\ iter = NoIter
  /\ ret = NoCall
  /\ pc = "ready"
  /\ v = Idle /\ cfg = Idle /\ mut = Idle /\ text = Idle /\ input = Idle
  /\ out = Idle /\ text2 = Idle /\ sortImpl = Idle /\ target = Idle /\ frames = Idle /\ cursor = Idle

\* the caller after a call: a panic ends the program
after(r) == IF r.panic # NoPanic THEN "panicked" ELSE "ready"

CallAdd(key) ==
  /\ pc = "ready" /\ Len(hist) <= MaxCalls
  /\ obj' = ObjAdd(obj, key, nextValue)
  /\ hist' = Append(hist, [op |-> "Add", key |-> key, value |-> nextValue])
  /\ ret' = [op |-> "Add", key |-> key, panic |-> NoPanic]
  /\ UNCHANGED <<pc, iter, codecVars, target, stepVars>>

CallSet(key) ==
  /\ pc = "ready" /\ Len(hist) <= MaxCalls
  /\ obj' = ObjSet(obj, key, nextValue)
  /\ hist' = Append(hist, [op |-> "Set", key |-> key, value |-> nextValue])
  /\ ret' = [op |-> "Set", key |-> key, panic |-> NoPanic]
  /\ UNCHANGED <<pc, iter, codecVars, target, stepVars>>

CallDelete(key) ==
  /\ pc = "ready" /\ Len(hist) <= MaxCalls
  /\ LET r == ObjDelete(obj, key) IN
     /\ pc' = after(r)
     /\ obj' = IF r.panic = NoPanic THEN r.o ELSE obj
     /\ hist' = IF r.panic = NoPanic
                THEN Append(hist, [op |-> "Delete", key |-> key]) ELSE hist
     /\ ret' = [op |-> "Delete", key |-> key, panic |-> r.panic]
  /\ UNCHANGED <<iter, codecVars, target, stepVars>>

CallGet(key) ==
  /\ pc = "ready"
  /\ LET r == ObjGet(obj, key) IN
     /\ pc' = after(r)
     /\ ret' = IF r.panic = NoPanic
               THEN [op |-> "Get", key |-> key, panic |-> NoPanic,
                     value |-> r.value, found |-> r.found]
               ELSE [op |-> "Get", key |-> key, panic |-> r.panic]
  /\ UNCHANGED <<obj, hist, iter, codecVars, target, stepVars>>

CallGetAll(key) ==
  /\ pc = "ready"
  /\ LET r == ObjGetAll(obj, key) IN
     /\ pc' = after(r)
     /\ ret' = IF r.panic = NoPanic
               THEN [op |-> "GetAll", key |-> key, panic |-> NoPanic,
                     values |-> r.values, found |-> r.found]
               ELSE [op |-> "GetAll", key |-> key, panic |-> r.panic]
  /\ UNCHANGED <<obj, hist, iter, codecVars, target, stepVars>>

CallLen ==
  /\ pc = "ready"
  /\ ret' = [op |-> "Len", panic |-> NoPanic, n |-> ObjLen(obj)]
  /\ UNCHANGED <<pc, obj, hist, iter, codecVars, target, stepVars>>

CallIter ==
  /\ pc = "ready"
  /\ iter' = [it |-> ObjIter(obj), pairs |-> <<>>, done |-> FALSE]
  /\ ret' = [op |-> "Iter", panic |-> NoPanic]
  /\ UNCHANGED <<pc, obj, hist, codecVars, target, stepVars>>

CallNext ==
  /\ pc = "ready" /\ iter # NoIter /\ ~iter.done
  /\ LET r == ObjNext(iter.it, obj) IN
     /\ pc' = after(r)
     /\ iter' = IF r.panic # NoPanic THEN iter
                ELSE IF r.ok
                THEN [it |-> r.it, done |-> FALSE,
                      pairs |-> Append(iter.pairs, [key |-> r.key, value |-> r.value])]
                ELSE [iter EXCEPT !.done = TRUE]
     /\ ret' = IF r.panic # NoPanic THEN [op |-> "Next", panic |-> r.panic]
               ELSE [op |-> "Next", panic |-> NoPanic, ok |-> r.ok]
  /\ UNCHANGED <<obj, hist, codecVars, target, stepVars>>

ObjNext1 ==
  \/ \E key \in Keys : CallAdd(key)
  \/ \E key \in Keys : CallSet(key)
  \/ \E key \in Keys : CallDelete(key)
  \/ \E key \in Keys : CallGet(key)
  \/ \E key \in Keys : CallGetAll(key)
  \/ CallLen
  \/ CallIter
  \/ CallNext

ObjSpec == ObjInit /\ [][ObjNext1]_vars

(***************************************************************************)
(* Properties of the Object methods, under ObjSpec.                        *)
(***************************************************************************)
\* the pairs a new iteration over o yields
pairsOf(o) == ObjPairs(o).pairs

\* the pairs of ps whose key is not key, in their order
RECURSIVE otherPairs(_, _)
otherPairs(ps, key) ==
  IF ps = <<>> THEN <<>>
  ELSE IF Head(ps).key = key THEN otherPairs(Tail(ps), key)
  ELSE <<Head(ps)>> \o otherPairs(Tail(ps), key)

absent(ps, key) == \A i \in 1..Len(ps) : ps[i].key # key

\* a step that is a call of op which changed the object
changedBy(op) == ret'.op = op /\ hist' # hist

\* C7: no Object operation faults on a missing key.  In every state of the
\* Object, the zero Object and the Object parsed from "{}" included, Get,
\* GetAll, Delete, Len and Iter return without a panic; Get and GetAll of an
\* absent key report found = false and Delete of an absent key leaves the
\* pairs of the object as they were.
C7_NoFaultOnMissingKey ==
  [][/\ ret'.op \in {"Get", "GetAll", "Delete", "Len", "Iter"} => ret'.panic = NoPanic
     /\ ret'.op \in {"Get", "GetAll"} /\ absent(pairsOf(obj), ret'.key) => ~ret'.found
     /\ ret'.op = "Delete" /\ absent(pairsOf(obj), ret'.key)
          => pairsOf(obj') = pairsOf(obj)]_vars

\* C8: Add keeps insertion order.  An Add appends its pair to the pairs a new
\* iteration yields, leaves the pairs that were there in place, and makes
\* Len grow by one; after Add calls only, a new iteration yields the pairs of
\* the calls, each once, in the order of the calls.
C8_AddKeepsInsertionOrder ==
  [][changedBy("Add") =>
       /\ pairsOf(obj') = Append(pairsOf(obj), [key |-> Last(hist').key,
                                                 value |-> Last(hist').value])
       /\ ObjLen(obj') = ObjLen(obj) + 1
       /\ (\A i \in 2..Len(hist') : hist'[i].op = "Add")
            => pairsOf(obj') = [i \in 1..(Len(hist') - 1) |->
                                  [key |-> hist'[i + 1].key, value |-> hist'[i + 1].value]]
    ]_vars

\* a run of three Add calls in which a key repeats
C8_Witness ==
  /\ ret.op = "Add" /\ Len(hist) = 4
  /\ \A i \in 2..4 : hist[i].op = "Add"
  /\ hist[2].key = hist[4].key /\ hist[3].key # hist[2].key

\* C9: Delete.  In a state reached by Add, Set and Delete calls, Delete(k)
\* returns; after it Get(k) and GetAll(k) report not found, a new iteration
\* yields no pair of k, Len is the number of pairs a new iteration yields and
\* the pairs of the other keys are yielded as before, in the same order.
C9_DeleteRemovesKey ==
  [][ret'.op = "Delete" /\ hist[1].op = "zero" =>
       /\ ret'.panic = NoPanic
       /\ ~ObjGet(obj', ret'.key).found
       /\ ~ObjGetAll(obj', ret'.key).found
       /\ absent(pairsOf(obj'), ret'.key)
       /\ ObjLen(obj') = Len(pairsOf(obj'))
       /\ pairsOf(obj') = otherPairs(pairsOf(obj), ret'.key)
    ]_vars

\* C10: Set.  After Set(k, v), GetAll(k) returns exactly <<v>>, the pair
\* (k, v) is the last one a new iteration yields, and the pairs of the other
\* keys are yielded as before, in the same order.
C10_SetReplaces ==
  [][changedBy("Set") =>
       /\ ObjGetAll(obj', ret'.key) =
            [panic |-> NoPanic, values |-> <<Last(hist').value>>, found |-> TRUE]
       /\ Last(pairsOf(obj')) = [key |-> ret'.key, value |-> Last(hist').value]
       /\ otherPairs(pairsOf(obj'), ret'.key) = otherPairs(pairsOf(obj), ret'.key)
    ]_vars

\* a Set of a key that had two entries, with an entry of another key between
C10_Witness ==
  /\ ret.op = "Set" /\ Len(hist) = 4
  /\ hist[2].op = "Add" /\ hist[3].op = "Add"
  /\ hist[2].key = ret.key /\ hist[3].key # ret.key

(***************************************************************************)
(* Properties of the codec, under Spec.                                    *)
(***************************************************************************)
\* the Number values of a Value tree
RECURSIVE numbersOf(_)
numbersOf(val) ==
  CASE val.t = "number" -> {val}
    [] val.t = "array"  -> UNION {numbersOf(val.a[i]) : i \in 1..Len(val.a)}
    [] val.t = "object" -> UNION {numbersOf(p.value) : p \in Range(pairsOf(val))}
    [] OTHER -> {}

\* no key occurs twice among the pairs ps
distinctKeys(ps) == \A i, j \in 1..Len(ps) : ps[i].key = ps[j].key => i = j

\* no object of the tree has a key twice
RECURSIVE noDuplicateKeys(_)
noDuplicateKeysIn(ps) ==
  distinctKeys(ps) /\ \A i \in 1..Len(ps) : noDuplicateKeys(ps[i].value)

noDuplicateKeys(val) ==
  CASE val.t = "array"  -> \A i \in 1..Len(val.a) : noDuplicateKeys(val.a[i])
    [] val.t = "object" -> noDuplicateKeysIn(pairsOf(val))
    [] OTHER -> TRUE

\* Structural equality of two Values: the same variant and payload, arrays
\* element by element, objects pair by pair in iteration order, numbers by
\* kind, sign flag and the magnitude the kind selects.
RECURSIVE Equal(_, _)
EqualPairs(ps, qs) ==
  /\ Len(ps) = Len(qs)
  /\ \A i \in 1..Len(ps) : ps[i].key = qs[i].key /\ Equal(ps[i].value, qs[i].value)

EqualSeqs(a, b) ==
  Len(a) = Len(b) /\ \A i \in 1..Len(a) : Equal(a[i], b[i])

Equal(a, b) ==
  /\ a.t = b.t
  /\ CASE a.t = "null"   -> TRUE
       [] a.t = "bool"   -> a.b = b.b
       [] a.t = "number" ->
            /\ a.IsFloat = b.IsFloat /\ a.IsNeg = b.IsNeg
            /\ IF a.IsFloat THEN a.Float = b.Float ELSE a.Integer = b.Integer
       [] a.t = "string" -> a.s = b.s
       [] a.t = "array"  -> EqualSeqs(a.a, b.a)
       [] a.t = "object" -> EqualPairs(pairsOf(a), pairsOf(b))

\* the configuration of the round trip: Serializer{Indent: 2, KeyValueGap: 1}
RoundTripCfg == Serializer(2, 0, 1, FALSE)

\* the text was handed to Deserialize as Serialize made it
unaltered == pc \in {"parsed", "done"} /\ mut = NoAlteration

\* every float magnitude of the tree is finite and has no sign of its own
floatsUnsigned(val) ==
  \A n \in numbersOf(val) : n.IsFloat => n.Float.cls = "fin" /\ ~n.Float.neg

\* every float magnitude of the tree is finite, and has no sign of its own
\* where the sign flag is set
floatsSignedOnce(val) ==
  \A n \in numbersOf(val) :
    n.IsFloat => n.Float.cls = "fin" /\ ~(n.Float.neg /\ n.IsNeg)

\* C1, as stated: round trip.  For every Value tree v without duplicate
\* object keys, Deserialize of the text Serializer{Indent: 2, KeyValueGap: 1}
\* makes of v succeeds and returns a Value structurally equal to v.
C1_RoundTripOfEveryValue ==
  unaltered /\ cfg = RoundTripCfg /\ noDuplicateKeys(v)
    => out.err = nil /\ Equal(out.value, v)

\* C1, amended: round trip.  For every Value tree v without duplicate object
\* keys whose float magnitudes are finite and carry no sign of their own,
\* Deserialize of the text Serializer{Indent: 2, KeyValueGap: 1} makes of v
\* succeeds and returns a Value structurally equal to v.
C1_RoundTrip ==
  unaltered /\ cfg = RoundTripCfg /\ noDuplicateKeys(v) /\ floatsUnsigned(v)
    => out.err = nil /\ Equal(out.value, v)

\* the round trip of an array that holds a negative integer, a string with
\* an escape and an object
C1_Witness ==
  /\ unaltered /\ cfg = RoundTripCfg /\ out.err = nil
  /\ v.t = "array" /\ Len(v.a) = 2
  /\ v.a[1].t = "number" /\ v.a[2].t = "object"
  /\ Equal(out.value, v)

sourcePairs == IF cfg.SortKeys THEN sortPairs(pairsOf(v)) ELSE pairsOf(v)

\* the values of the pairs of ps whose key is key, in their order
RECURSIVE valuesOf(_, _)
valuesOf(ps, key) ==
  IF ps = <<>> THEN <<>>
  ELSE IF Head(ps).key = key THEN <<Head(ps).value>> \o valuesOf(Tail(ps), key)
  ELSE valuesOf(Tail(ps), key)

\* Get and GetAll of key on the object o answer as the pairs ps want
lookupsMatch(o, ps, key) ==
  /\ ObjGet(o, key).panic = NoPanic /\ ObjGet(o, key).found
  /\ Equal(ObjGet(o, key).value, Head(valuesOf(ps, key)))
  /\ ObjGetAll(o, key).panic = NoPanic /\ ObjGetAll(o, key).found
  /\ EqualSeqs(ObjGetAll(o, key).values, valuesOf(ps, key))

\* C3: duplicate object keys are preserved by parsing.  Deserialize of the
\* text of an object in which a key repeats succeeds; a new iteration over
\* the Object it returns yields the pairs of the text in source order, and
\* for every key of the text Get returns the value of its first occurrence
\* and GetAll the values of all its occurrences in source order.
C3_DuplicateKeysPreserved ==
  unaltered /\ v.t = "object" /\ ~distinctKeys(pairsOf(v))
    => /\ out.err = nil
       /\ out.value.t = "object"
       /\ EqualPairs(pairsOf(out.value), sourcePairs)
       /\ ObjLen(out.value) = Len(sourcePairs)
       /\ \A i \in 1..Len(sourcePairs) :
            lookupsMatch(out.value, sourcePairs, sourcePairs[i].key)

\* the parse of an object text in which a key occurs twice with two values
C3_Witness ==
  /\ unaltered /\ out.err = nil /\ v.t = "object" /\ Len(pairsOf(v)) = 2
  /\ pairsOf(v)[1].key = pairsOf(v)[2].key
  /\ pairsOf(v)[1].value # pairsOf(v)[2].value
  /\ Len(ObjGetAll(out.value, pairsOf(v)[1].key).values) = 2

\* C4: trailing comma rejection.  For the text of an array or object with at
\* least one element in which a ',' is followed, after optional whitespace,
\* by the closing ']' or '}', Deserialize returns an error and no value.
C4_TrailingCommaRejected ==
  pc = "parsed" /\ mut.kind = "trailing" => out.err # nil /\ out.value = nil

\* the parse of a text with a ',' and whitespace before a closing '}'
C4_Witness ==
  /\ pc = "parsed" /\ mut.kind = "trailing" /\ out.err # nil
  /\ input[mut.at + 1] = "," /\ input[mut.at + 2] = "\n"
  /\ tokenAfter(text, mut.at) = "}"

\* C5: leading comma rejection.  For an array text whose first token after
\* the '[' is ',', Deserialize returns an error and no value.
C5_LeadingCommaRejected ==
  pc = "parsed" /\ mut.kind = "leading" => out.err # nil /\ out.value = nil

\* the parse of an array text with whitespace, a ',' and an element after
\* the '['
C5_Witness ==
  /\ pc = "parsed" /\ mut.kind = "leading" /\ out.err # nil
  /\ v.t = "array" /\ Len(v.a) > 0
  /\ IsSpace(input[mut.at]) /\ input[mut.at + 1] = ","

\* C6: unterminated string.  When the input ends after the opening '"' of a
\* string value or of an object key and before a '"' that no backslash
\* escapes, Deserialize fails with ErrUnmatchedQuote, at the top level, in
\* an array element, in an object key and in an object value.
C6_UnterminatedString ==
  pc = "parsed" /\ mut.kind = "cut" => out.err = ErrUnmatchedQuote /\ out.value = nil

\* the parse of a text that ends in the key of an object pair, after a
\* backslash and the quote it escapes
C6_Witness ==
  /\ pc = "parsed" /\ mut.kind = "cut" /\ out.err = ErrUnmatchedQuote
  /\ v.t = "object" /\ input[1] = "{"
  /\ input[Len(input)] = "\"" /\ input[Len(input) - 1] = "\\"

(***************************************************************************)
(* Lookups of an Object, under ObjSpec.                                    *)
(***************************************************************************)
\* the pairs that survive a call c made when the pairs before survived
survivorsAfter(before, c) ==
  CASE c.op = "Add"    -> Append(before, [key |-> c.key, value |-> c.value])
    [] c.op = "Set"    -> Append(otherPairs(before, c.key),
                                 [key |-> c.key, value |-> c.value])
    [] c.op = "Delete" -> otherPairs(before, c.key)

\* the inserted pairs that the calls of h have not removed, in the order of
\* their insertion
RECURSIVE survivors(_)
survivors(h) ==
  IF Len(h) <= 1 THEN <<>>
  ELSE survivorsAfter(survivors(SubSeq(h, 1, Len(h) - 1)), Last(h))

\* C11: Object lookup.  In a state reached by Add, Set and Delete calls,
\* Get(k) of a key with an entry that was not removed returns the value of
\* the earliest inserted of these entries, and GetAll(k) returns the values
\* of all of them in the order of insertion, which is the order in which a
\* new iteration yields them.
C11_LookupEarliestSurviving ==
  [][ret'.op \in {"Get", "GetAll"} /\ ~absent(survivors(hist), ret'.key) =>
       /\ ret'.panic = NoPanic /\ ret'.found
       /\ ret'.op = "Get" => ret'.value = Head(valuesOf(survivors(hist), ret'.key))
       /\ ret'.op = "GetAll" =>
            /\ ret'.values = valuesOf(survivors(hist), ret'.key)
            /\ ret'.values = valuesOf(pairsOf(obj), ret'.key)
    ]_vars

\* a GetAll of a key that was added, replaced by Set and added again
C11_Witness ==
  /\ ret.op = "GetAll" /\ Len(hist) = 4
  /\ hist[2].op = "Add" /\ hist[3].op = "Set" /\ hist[4].op = "Add"
  /\ hist[2].key = ret.key /\ hist[3].key = ret.key /\ hist[4].key = ret.key
  /\ ret.values = <<hist[3].value, hist[4].value>>

(***************************************************************************)
(* A caller of Deserialize with texts.  It hands a text to Deserialize;    *)
(* where Deserialize accepts the text, it hands it over a second time with *)
(* a run of whitespace put in at one place between two tokens, or with the *)
(* end of the text taken away.                                             *)
(***************************************************************************)
\* the length of the longest run of whitespace put in
MaxPad == 2

\* texts of JSON documents, one of them with whitespace around every token
Documents ==
  {<<"{", "\"", "a", "\"", ":", "1", "}">>,
   <<" ", "{", " ", "\"", "a", "\"", " ", ":", " ", "1", " ", "}", " ">>,
   <<"[", "-", "2", ".", "5", ",", "\"", "x", "\\", "\"", "\"", ",",
     "n", "u", "l", "l", "]">>,
   <<"{", "\"", "a", "\"", ":", "[", "t", "r", "u", "e", ",", "{", "}", "]", ",",
     "\"", "b", "\"", ":", "f", "a", "l", "s", "e", "}">>,
   <<"[", "1", ",", "2", "]">>, <<"1", "2">>, <<"\"", "a", " ", "b", "\"">>,
   <<"[", " ", "1", " ", ",", " ", "3", " ", "]">>}

\* texts that are empty, or hold whitespace only, or whose first byte after
\* the whitespace starts no JSON form
NoDocuments ==
  {<<>>, <<" ">>, <<"\n", "\t", " ">>, <<"x">>, <<" ", "\n", " ", "x">>,
   <<"}">>, <<"]">>, <<",">>, <<":">>, <<".", "5">>, <<"+", "1">>,
   <<"\n", "\n", " ", " ", "]">>}

\* texts of several lines in which a byte fits no form
BrokenDocuments ==
  {<<"[", "\n", "1", ",", "\n", "x", "]">>,
   <<"{", "\n", "\"", "a", "\"", " ", "1", "}">>,
   <<"{", "\"", "a", "\"", ":", "\n", " ", " ", "?", "}">>,
   <<"[", "1", "\n", "2", "]">>, <<"[", " ", "1", " ", ",", " ", "]">>,
   <<"-">>, <<"n", "u", "l">>, <<"[", "x", "]">>, <<"{", "1", "}">>,
   <<"[", "1", ",", "[", "}", "]">>}

\* 2^64, and the number of the test of deserialize_test.go that has 44 digits
TwoTo64 == <<1, 8, 4, 4, 6, 7, 4, 4, 0, 7, 3, 7, 0, 9, 5, 5, 1, 6, 1, 6>>

LongNumeral ==
  <<1, 2, 2, 1, 3, 4, 4, 4, 2, 3, 4, 5, 2, 3, 4, 5, 2, 3, 4, 5, 2, 3, 4, 5, 6, 3, 4, 5,
    6, 3, 4, 5, 6, 7, 4, 5, 6, 7, 4, 5, 6, 7, 3>>

\* integer literals: zero, leading zeros, a sign, the largest uint64 and
\* values above it
IntegerTexts ==
  {<<"0">>, <<"0", "0", "7">>, <<"0", "1", "2", "3">>, <<"-", "1", "2">>, <<"-", "0">>,
   <<"1", "2", ".">>, <<"[", "0", "1", "2", "3", ",", "-", "7", "]">>,
   FormatUint(MaxUint64), <<"0", "0">> \o FormatUint(MaxUint64),
   <<"-">> \o FormatUint(MaxUint64),
   FormatUint(TwoTo64), <<"-">> \o FormatUint(TwoTo64),
   <<"0">> \o FormatUint(LongNumeral),
   <<"[", "1", ",">> \o FormatUint(TwoTo64) \o <<"]">>}

\* string tokens with escapes: those of JSON, those of Go string literals, and
\* others
EscapeTexts ==
  {<<"\"", "\\", "\"", "\\", "\\", "\"">>,
   <<"\"", "\\", "b", "\\", "f", "\\", "n", "\\", "r", "\\", "t", "\"">>,
   <<"\"", "\\", "u", "0", "0", "4", "1", "\\", "u", "0", "0", "e", "9", "\"">>,
   <<"\"", "a", "\\", "u", "0", "0", "2", "F", "b", "\"">>,
   <<"\"", "\\", "/", "\"">>,
   <<"\"", "\\", "u", "d", "8", "3", "d", "\\", "u", "d", "e", "0", "0", "\"">>,
   <<"\"", "\\", "a", "\"">>, <<"\"", "\\", "v", "\"">>,
   <<"\"", "\\", "x", "4", "1", "\"">>, <<"\"", "\\", "1", "0", "1", "\"">>,
   <<"\"", "\\", "U", "0", "0", "0", "1", "F", "6", "0", "0", "\"">>,
   <<"\"", "\\", "q", "\"">>, <<"\"", "\\", "'", "\"">>,
   <<"\"", "\\", "u", "1", "2", "\"">>}

\* texts with bytes after their first value, and the value
TrailingCases ==
  {[text |-> <<"1", " ", "2">>, value |-> Number(FloatZero, <<1>>, FALSE, FALSE)],
   [text |-> <<"n", "u", "l", "l", "x">>, value |-> Null],
   [text |-> <<"1", ".", "5", "e", "3">>,
    value |-> Number([cls |-> "fin", neg |-> FALSE, ip |-> <<1>>, fp |-> <<5>>],
                     <<0>>, TRUE, FALSE)],
   [text |-> <<"1", ".">>, value |-> Number(FloatZero, <<1>>, FALSE, FALSE)],
   [text |-> <<"[", "]", " ", "]">>, value |-> Array(<<>>)]}

TrailingTexts == {c.text : c \in TrailingCases}

Inputs ==
  Documents \cup NoDocuments \cup BrokenDocuments \cup IntegerTexts \cup EscapeTexts
  \cup TrailingTexts

WhiteBytes == {" ", "\t", "\r", "\n"}

\* the runs of whitespace put in: one byte repeated, or the four bytes
WhiteRuns ==
  {Repeat(c, n) : c \in WhiteBytes, n \in 1..MaxPad} \cup {<<" ", "\t", "\r", "\n">>}

IsPunct(c) == c \in {"[", "]", "{", "}", ",", ":"}

\* the places of the text t before the first token, between two tokens and
\* after the last one
betweenTokens(t) ==
  {p \in 0..Len(t) :
     /\ ~inString(t, p)
     /\ \/ p = 0 \/ p = Len(t)
        \/ IsPunct(t[p]) \/ IsSpace(t[p]) \/ t[p] = "\""
        \/ IsPunct(t[p + 1]) \/ IsSpace(t[p + 1]) \/ t[p + 1] = "\""}

ParseInit ==
  /\ input \in Inputs /\ pc = "given" /\ mut = NoAlteration
  /\ v = Idle /\ cfg = Idle /\ text = Idle /\ out = Idle /\ text2 = Idle
  /\ sortImpl = Idle
  /\ obj = Object /\ hist = <<>> /\ iter = NoIter /\ ret = NoCall
  /\ target = Idle /\ frames = Idle /\ cursor = Idle

\* Deserialize(input)
Parse ==
  /\ pc \in {"given", "changed"}
  /\ out' = Deserialize(input)
  /\ pc' = IF pc = "given" THEN "parsed" ELSE "reparsed"
  /\ UNCHANGED <<v, cfg, mut, text, input, text2, sortImpl, objVars, target, stepVars>>

\* the text with the run ws put in at place p, after Deserialize accepted it
Pad(p, ws) ==
  /\ pc = "parsed" /\ out.err = nil
  /\ text' = input /\ v' = out.value
  /\ input' = SubSeq(input, 1, p) \o ws \o SubSeq(input, p + 1, Len(input))
  /\ mut' = [kind |-> "pad", at |-> p]
  /\ pc' = "changed"
  /\ UNCHANGED <<cfg, out, text2, sortImpl, objVars, target, stepVars>>

\* the text up to place p, after Deserialize accepted it
Truncate(p) ==
  /\ pc = "parsed" /\ out.err = nil
  /\ text' = input /\ v' = out.value
  /\ input' = SubSeq(input, 1, p)
  /\ mut' = [kind |-> "truncate", at |-> p]
  /\ pc' = "changed"
  /\ UNCHANGED <<cfg, out, text2, sortImpl, objVars, target, stepVars>>

ParseNext ==
  \/ Parse
  \/ pc = "parsed" /\ \E p \in betweenTokens(input), ws \in WhiteRuns : Pad(p, ws)
  \/ pc = "parsed" /\ \E p \in 1..(Len(input) - 1) : Truncate(p)

ParseSpec == ParseInit /\ [][ParseNext]_vars
(***************************************************************************)
(* Properties of Deserialize on texts                                      *)
(***************************************************************************)

padded == pc = "reparsed" /\ mut.kind = "pad"

\* C12: a run of spaces, tabs, carriage returns or newlines put in before the
\* first token, between two tokens or after the last token of a text that
\* Deserialize accepts leaves a text that Deserialize accepts, with a Value
\* structurally equal to the Value of the text without the run.
C12_WhitespaceInsensitive ==
  padded => out.err = nil /\ Equal(out.value, v)

\* a tab, a carriage return and a newline put in before the colon of an
\* object of the text, which parses to the object it was
C12_Witness ==
  /\ padded /\ out.err = nil /\ out.value = v /\ v.t = "object"
  /\ mut.at > 0 /\ mut.at < Len(text) /\ text[mut.at + 1] = ":"
  /\ SubSeq(input, mut.at + 1, mut.at + 4) = <<" ", "\t", "\r", "\n">>

\* the number of bytes of whitespace the text t starts with
leadingSpace(t) ==
  LET stops == {j \in 1..Len(t) : ~IsSpace(t[j])} IN
  IF stops = {} THEN Len(t) ELSE (CHOOSE j \in stops : \A k \in stops : j <= k) - 1

\* the row and the column of byte j of the text t, counted from 1
rowOf(t, j) == 1 + Cardinality({k \in 1..(j - 1) : t[k] = "\n"})

colOf(t, j) ==
  LET nls == {k \in 1..(j - 1) : t[k] = "\n"} IN
  IF nls = {} THEN j ELSE j - (CHOOSE k \in nls : \A k2 \in nls : k2 <= k)

\* the bytes a JSON form starts with: null, true, false, a number, a string,
\* an array, an object
FormStarts == {"n", "t", "f", "-", "\"", "[", "{"} \cup Range(Digits)

parsedOnce == pc \in {"parsed", "reparsed"}

\* C13: Deserialize of a text that is empty or holds whitespace only fails
\* with ErrUnexpectedEndOfInput; Deserialize of a text whose first byte after
\* the leading whitespace starts none of the six JSON forms fails with the
\* InvalidTokenError of that byte, its row and its column; in both cases the
\* Value returned is nil, so never a null Value with a nil error.
C13_TopLevelFailureKind ==
  parsedOnce =>
    LET k == leadingSpace(input) IN
    /\ k = Len(input) =>
         out.err = ErrUnexpectedEndOfInput /\ out.value = nil
    /\ k < Len(input) /\ input[k + 1] \notin FormStarts =>
         /\ out.err = InvalidTokenError(input[k + 1], rowOf(input, k + 1), colOf(input, k + 1))
         /\ out.value = nil

\* two newlines and two blanks before a closing bracket: reported at row 3,
\* column 3
C13_Witness ==
  /\ pc = "parsed" /\ input = <<"\n", "\n", " ", " ", "]">>
  /\ out.err = InvalidTokenError("]", 3, 3) /\ out.value = nil

\* the number of arrays and objects of the text t that are opened and not
\* closed
openDepth(t) ==
  Cardinality({j \in 1..Len(t) : t[j] \in {"[", "{"} /\ ~inString(t, j)})
  - Cardinality({j \in 1..Len(t) : t[j] \in {"]", "}"} /\ ~inString(t, j)})

\* the text ends inside an array or an object, after a whole token
endsInComposite ==
  /\ pc = "reparsed" /\ mut.kind = "truncate"
  /\ mut.at \in betweenTokens(text) /\ openDepth(input) > 0

\* C14: Deserialize of a text that ends while an array or an object whose
\* opening delimiter was consumed still needs bytes fails with
\* ErrUnexpectedEndOfInput.
C14_EndInsideComposite ==
  endsInComposite => out.err = ErrUnexpectedEndOfInput

\* the same, for the texts whose last token is not an opening delimiter
C14_EndAfterFirstElement ==
  endsInComposite /\ tokenBefore(input, Len(input)) \notin {"[", "{"} =>
    out.err = ErrUnexpectedEndOfInput

\* the text whose last token is an opening delimiter is reported as an
\* invalid token, an opening delimiter
C14_EndAfterDelimiter ==
  endsInComposite /\ tokenBefore(input, Len(input)) \in {"[", "{"} =>
    out.err.kind = "InvalidTokenError" /\ out.err.Token \in {"[", "{"}

\* both cases happen
C14_Cases ==
  /\ endsInComposite
  /\ \/ input = <<"{">> /\ out.err = InvalidTokenError("{", 1, 1)
     \/ input = <<"{", "\"", "a", "\"", ":">> /\ out.err = ErrUnexpectedEndOfInput

\* the cursor the claim describes for the text t with n bytes consumed
cursorAt(t, n) == deserializer(t, n, rowOf(t, n + 1), colOf(t, n + 1))

\* C15: the cursor starts at row 1, column 1; after the first n bytes of the
\* input are read its row is 1 plus the number of newlines among them and
\* its column 1 plus the number of bytes read after the last of these
\* newlines (the cursor deserialize starts with is this cursor for n = 0, and
\* read takes this cursor for n to this cursor for n + 1, returning the byte
\* between); a read at the end of the input fails and returns the cursor it
\* was given; every InvalidTokenError that Deserialize returns holds the row
\* and the column of a byte of the input that is the Token it names.
C15_RowColTracking ==
  /\ newDeserializer(input) = deserializer(input, 0, 1, 1)
  /\ newDeserializer(input) = cursorAt(input, 0)
  /\ \A n \in 0..(Len(input) - 1) :
       read(cursorAt(input, n)) = Ret(cursorAt(input, n + 1), input[n + 1], OK(TRUE))
  /\ \A n \in 0..Len(input) : advance(newDeserializer(input), n) = cursorAt(input, n)
  /\ read(cursorAt(input, Len(input))) = Ret(cursorAt(input, Len(input)), NUL, OK(FALSE))
  /\ parsedOnce /\ out.err.kind = "InvalidTokenError" =>
       \E j \in 1..Len(input) :
         /\ input[j] = out.err.Token
         /\ rowOf(input, j) = out.err.Row /\ colOf(input, j) = out.err.Col

\* an invalid byte on the second row, after two blanks: the reads of the
\* newline and of the second blank, and the error returned
C15_Witness ==
  /\ pc = "parsed" /\ input = <<"{", "\"", "a", "\"", ":", "\n", " ", " ", "?", "}">>
  /\ read(deserializer(input, 5, 1, 6)).d = deserializer(input, 6, 2, 1)
  /\ read(deserializer(input, 7, 2, 2)).d = deserializer(input, 8, 2, 3)
  /\ out.err = InvalidTokenError("?", 2, 3)

\* the digits of the text t when t is a run of digits, or '-' and a run of
\* digits, and nothing else; <<>> when it is not
literalDigits(t) ==
  LET body == IF t # <<>> /\ Head(t) = "-" THEN Tail(t) ELSE t IN
  IF \A i \in 1..Len(body) : IsDigit(body[i]) THEN body ELSE <<>>

\* the value of a run of digits, without leading zeros
digitsValue(ds) == StripLeadingZeros([i \in 1..Len(ds) |-> DigitVal(ds[i])])

\* C16: Deserialize of a run of digits, with or without leading zeros and
\* with or without a leading '-', returns the integer-kind Number of the
\* value of the digits, the sign flag set exactly when the '-' is there, when
\* the value is at most 2^64 - 1; when it is more, Deserialize fails and
\* returns no Value, also when the run is an element of an array.
C16_IntegerRange ==
  /\ parsedOnce /\ literalDigits(input) # <<>> =>
       LET n == digitsValue(literalDigits(input)) IN
       IF NumLess(MaxUint64, n)
       THEN out.err # nil /\ out.value = nil
       ELSE /\ out.err = nil
            /\ out.value = Number(FloatZero, n, FALSE, Head(input) = "-")
  /\ parsedOnce /\ input = <<"[", "1", ",">> \o FormatUint(TwoTo64) \o <<"]">> =>
       out.err # nil /\ out.value = nil

\* 2^64 with a '-': the error of ParseUint, and no Value
C16_Witness ==
  /\ pc = "parsed" /\ input = <<"-">> \o FormatUint(TwoTo64)
  /\ out.err = ErrRange("ParseUint") /\ out.value = nil

\* 2^64 - 1 after two zeros is the largest magnitude
C16_WitnessLargest ==
  /\ pc = "parsed" /\ input = <<"0", "0">> \o FormatUint(MaxUint64)
  /\ out = [value |-> Number(FloatZero, MaxUint64, FALSE, FALSE), err |-> nil]

\* the escapes of JSON (RFC 8259, section 7) that are a backslash and one
\* byte, and the character each stands for
JSONEscapes ==
  << <<"\"", "\"">>, <<"\\", "\\">>, <<"/", "/">>, <<"b", "<BS>">>, <<"f", "\f">>,
     <<"n", "\n">>, <<"r", "\r">>, <<"t", "\t">> >>

IsSurrogate(n) == n >= 55296 /\ n <= 57343

\* the characters of the body s of a JSON string, by the rules of JSON: ok is
\* FALSE when s holds an escape that JSON does not have.  A \u escape of a
\* surrogate half and the \u escape after it are one character.
RECURSIVE jsonUnescape(_, _)
jsonUnescape(s, acc) ==
  IF s = <<>> THEN [o |-> acc, ok |-> TRUE]
  ELSE IF Head(s) # "\\" THEN jsonUnescape(Tail(s), Append(acc, Head(s)))
  ELSE IF Len(s) < 2 THEN [o |-> <<>>, ok |-> FALSE]
  ELSE IF \E e \in Range(JSONEscapes) : e[1] = s[2]
       THEN jsonUnescape(Tail(Tail(s)),
                         Append(acc, (CHOOSE e \in Range(JSONEscapes) : e[1] = s[2])[2]))
  ELSE IF s[2] = "u" /\ Len(s) >= 6 /\ (\A i \in 3..6 : IsHexDigit(s[i]))
       THEN IF ~IsSurrogate(hexNumber(SubSeq(s, 3, 6)))
            THEN jsonUnescape(SubSeq(s, 7, Len(s)),
                              Append(acc, runeOfCode(hexNumber(SubSeq(s, 3, 6)))))
            ELSE IF Len(s) >= 12 /\ s[7] = "\\" /\ s[8] = "u"
                    /\ (\A i \in 9..12 : IsHexDigit(s[i]))
                 THEN jsonUnescape(SubSeq(s, 13, Len(s)), Append(acc, "<rune>"))
                 ELSE jsonUnescape(SubSeq(s, 7, Len(s)), Append(acc, "<rune>"))
  ELSE [o |-> <<>>, ok |-> FALSE]

\* the bytes that follow a backslash that starts an escape in the body s
RECURSIVE escapeBytes(_)
escapeBytes(s) ==
  IF Len(s) < 2 THEN {}
  ELSE IF Head(s) = "\\" THEN {s[2]} \cup escapeBytes(Tail(Tail(s)))
  ELSE escapeBytes(Tail(s))

bodyOf(t) == SubSeq(t, 2, Len(t) - 1)

stringParsed == parsedOnce /\ input \in EscapeTexts

\* C17: for a string token, Deserialize returns the String of the characters
\* that the rules of JSON give (the escapes \" \\ \/ \b \f \n \r \t and
\* \uXXXX, a surrogate pair being one character), and fails when the token
\* holds an escape that JSON does not have.
C17_StandardJSONEscapes ==
  stringParsed =>
    LET j == jsonUnescape(bodyOf(input), <<>>) IN
    IF j.ok THEN out.err = nil /\ out.value = String(j.o)
    ELSE out.err # nil /\ out.value = nil

\* the same, for the tokens whose escapes are \" \\ \b \f \n \r \t and
\* \uXXXX of no surrogate half, or are none of JSON and none of Go
C17_SharedEscapes ==
  stringParsed /\ escapeBytes(bodyOf(input)) \subseteq {"\"", "\\", "b", "f", "n", "r", "t", "u", "q", "'"}
               /\ input # <<"\"", "\\", "u", "d", "8", "3", "d", "\\", "u", "d", "e", "0", "0", "\"">> =>
    LET j == jsonUnescape(bodyOf(input), <<>>) IN
    IF j.ok THEN out.err = nil /\ out.value = String(j.o)
    ELSE out.err # nil /\ out.value = nil

\* the escapes \/ and a surrogate pair are rejected
C17_RejectedJSONEscapes ==
  stringParsed /\ (\/ input = <<"\"", "\\", "/", "\"">>
                   \/ input = <<"\"", "\\", "u", "d", "8", "3", "d", "\\", "u", "d", "e", "0", "0", "\"">>) =>
    out.err = ErrSyntax /\ out.value = nil

\* the escapes of Go that JSON does not have are accepted
C17_AcceptedGoEscapes ==
  stringParsed /\ escapeBytes(bodyOf(input)) \cap {"a", "v", "x", "1", "U"} # {} =>
    out.err = nil /\ out.value.t = "string"

\* \/ rejected, and \x41 accepted as "A"
C17_Cases ==
  /\ pc = "parsed"
  /\ \/ input = <<"\"", "\\", "/", "\"">> /\ out.err = ErrSyntax
     \/ input = <<"\"", "\\", "x", "4", "1", "\"">> /\ out.value = String(<<"A">>)

(***************************************************************************)
(* Properties of Serialize                                                 *)
(***************************************************************************)

\* the number of empty arrays (open = "[") or of empty objects (open = "{")
\* in the Value val, at any depth
RECURSIVE empties(_, _)
RECURSIVE emptiesIn(_, _)
emptiesIn(vals, open) ==
  IF vals = <<>> THEN 0 ELSE empties(Head(vals), open) + emptiesIn(Tail(vals), open)

empties(val, open) ==
  CASE val.t = "array" ->
         IF val.a = <<>> THEN (IF open = "[" THEN 1 ELSE 0) ELSE emptiesIn(val.a, open)
    [] val.t = "object" ->
         LET ps == pairsOf(val) IN
         IF ps = <<>> THEN (IF open = "{" THEN 1 ELSE 0)
         ELSE emptiesIn([i \in 1..Len(ps) |-> ps[i].value], open)
    [] OTHER -> 0

\* the places of the text t, outside its strings, where the bytes open and
\* close stand side by side
sideBySide(t, open, close) ==
  {j \in 1..(Len(t) - 1) : t[j] = open /\ t[j + 1] = close /\ ~inString(t, j)}

\* the places of the text t, outside its strings, where the byte open is
\* followed by the byte close with nothing or only whitespace between
facing(t, open, close) ==
  {j \in 1..(Len(t) - 1) : t[j] = open /\ ~inString(t, j) /\ tokenAfter(t, j) = close}

\* the text t is what the claim says of the empty arrays and objects of val
emptiesExact(t, val) ==
  /\ facing(t, "[", "]") = sideBySide(t, "[", "]")
  /\ facing(t, "{", "}") = sideBySide(t, "{", "}")
  /\ Cardinality(sideBySide(t, "[", "]")) = empties(val, "[")
  /\ Cardinality(sideBySide(t, "{", "}")) = empties(val, "{")

\* C18: for every configuration, the text of a Value holds [] for each empty
\* Array and {} for each empty Object of the Value, at any depth, with
\* nothing between the brackets; the text of an empty Array or Object is the
\* prefix and [] or {}; the same holds of the text of a Value that
\* Deserialize returned, and of an Object emptied by Delete.
C18_EmptyCollections ==
  /\ pc # "start" =>
       /\ emptiesExact(text, v)
       /\ v = Array(<<>>) => text = Repeat(" ", cfg.Prefix) \o <<"[", "]">>
       /\ v.t = "object" /\ pairsOf(v) = <<>> => text = Repeat(" ", cfg.Prefix) \o <<"{", "}">>
       /\ Serialize(cfg, ObjDelete(ObjAdd(Object, <<"a">>, v), <<"a">>).o)
            = Repeat(" ", cfg.Prefix) \o <<"{", "}">>
  /\ pc = "done" => emptiesExact(text2, out.value)

\* an object with an empty object and an empty array in an array, indented,
\* serialized, parsed and serialized again
C18_Witness ==
  /\ pc = "done" /\ mut = NoAlteration /\ cfg.Indent > 0
  /\ empties(v, "[") = 1 /\ empties(v, "{") = 1
  /\ empties(out.value, "[") = 1 /\ empties(out.value, "{") = 1
  /\ Cardinality(sideBySide(text2, "[", "]")) = 1
  /\ Cardinality(sideBySide(text2, "{", "}")) = 1

\* the text of the Number v without the prefix of the configuration
numberText == SubSeq(text, cfg.Prefix + 1, Len(text))

numberSerialized == pc # "start" /\ v.t = "number"

\* the sign bit of the float f is set
signBit(f) == f.cls # "nan" /\ f.neg

\* the text of an integer-kind Number holds no decimal point; the text of a
\* float-kind Number holds one, ".0" being put after a rendering without one
decimalPoint ==
  IF v.IsFloat
  THEN /\ "." \in Range(numberText)
       /\ "." \notin Range(FormatFloat(v.Float)) =>
            numberText = (IF v.IsNeg THEN <<"-">> ELSE <<>>)
                         \o FormatFloat(v.Float) \o <<".", "0">>
  ELSE "." \notin Range(numberText)

\* C19 as stated: the text of an integer-kind Number holds no decimal point,
\* the text of a float-kind Number holds one (".0" is appended to a rendering
\* that has none), and the text starts with '-' exactly when the sign flag of
\* the Number is set.
C19_SignExactlyWhenFlagged ==
  numberSerialized =>
    /\ decimalPoint
    /\ Head(numberText) = "-" <=> v.IsNeg

\* C19, amended: the same, but the text of a Number whose sign flag is not
\* set starts with no '-' unless the Number is float-kind and the sign bit of
\* its Float is set.
C19_NumberFormat ==
  numberSerialized =>
    /\ decimalPoint
    /\ v.IsNeg => Head(numberText) = "-"
    /\ ~v.IsNeg /\ ~(v.IsFloat /\ signBit(v.Float)) => Head(numberText) # "-"

\* the float-kind Number 2 with the sign flag set: -2.0
C19_Witness ==
  /\ pc = "serialized" /\ v = Number(Float(FALSE, <<2>>, <<>>), <<0>>, TRUE, TRUE)
  /\ numberText = <<"-", "2", ".", "0">>

\* the pairs ps in ascending order of their keys, pairs of the same key in
\* the order they have in ps: the first pair whose key is the least, then the
\* others in that way
RECURSIVE stableOrder(_)
stableOrder(ps) ==
  IF ps = <<>> THEN <<>>
  ELSE LET i == CHOOSE i \in 1..Len(ps) :
                  /\ \A j \in 1..Len(ps) : ~keyLess(ps[j].key, ps[i].key)
                  /\ \A j \in 1..(i - 1) : keyLess(ps[i].key, ps[j].key)
       IN <<ps[i]>> \o stableOrder(SubSeq(ps, 1, i - 1) \o SubSeq(ps, i + 1, Len(ps)))

\* an Object was serialized, and the text parsed as it is
objectEmitted ==
  /\ pc = "parsed" /\ mut = NoAlteration /\ v.t = "object" /\ out.err = nil

\* the entries of the text are the pairs ps, in their order
emittedInOrder(ps) == out.value.t = "object" /\ EqualPairs(pairsOf(out.value), ps)

\* C20: with SortKeys false the entries of an object are emitted in insertion
\* order; with SortKeys true they are emitted in ascending order of their
\* keys, entries of the same key in insertion order.
C20_KeyOrder ==
  objectEmitted =>
    emittedInOrder(IF cfg.SortKeys THEN stableOrder(pairsOf(v)) ELSE pairsOf(v))

\* the same, for the objects of at most 6 entries and for the sort.Slice of
\* Go 1.19 and later on objects of at most 12 entries
C20_KeyOrderShort ==
  objectEmitted /\ (Len(pairsOf(v)) <= 6 \/ sortImpl = "pdqsort") =>
    emittedInOrder(IF cfg.SortKeys THEN stableOrder(pairsOf(v)) ELSE pairsOf(v))

\* with the sort.Slice of Go 1.18 the two entries of key b of the object of
\* seven pairs change places
C20_Unstable ==
  /\ objectEmitted /\ cfg.SortKeys /\ sortImpl = "quickSort" /\ pairsOf(v) = SevenPairs
  /\ [i \in 1..3 |-> pairsOf(out.value)[i].value] = <<Null, Bool(FALSE), Bool(TRUE)>>

(***************************************************************************)
(* A caller of Unmarshal and UnmarshalValue: it hands bytes, or a Value it *)
(* built, and a variable of some Go type to the decoder.                   *)
(***************************************************************************)
\* texts of floats with and without a fraction, around the limits of int8 and uint8
FloatTexts ==
  {<<"1", ".", "0">>, <<"1", ".", "5">>, <<"-", "1", ".", "0">>,
   <<"-", "1", ".", "5">>, <<"-", "0", ".", "0">>, <<"1", "2", "7", ".", "0">>,
   <<"1", "2", "8", ".", "0">>, <<"-", "1", "2", "8", ".", "0">>,
   <<"-", "1", "2", "9", ".", "0">>, <<"2", "5", "5", ".", "0">>,
   <<"2", "5", "6", ".", "0">>}

\* texts of the other values, and one that is no JSON
OtherTexts ==
  {<<"3">>, <<"-", "3">>, <<"n", "u", "l", "l">>, <<"t", "r", "u", "e">>,
   <<"\"", "a", "\"">>, <<"{", "}">>, <<"[", "]">>, <<"[", "1", ",", "2", "]">>,
   <<"[", "1", ",", " ", "2", ".", "5", "]">>,
   <<"[", "\n", "1", ",", "\n", "\"", "a", "\"", "]">>,
   <<"[", "[", "1", ",", "2", "]", "]">>,
   <<"[", "[", "1", "]", ",", "[", "t", "r", "u", "e", "]", "]">>,
   <<"[", "n", "u", "l", "l", "]">>,
   <<"[", "[", "]", ",", "[", "1", ".", "5", "]", "]">>, <<"x">>}

TenTo19 == <<1>> \o Repeat(0, 19)

TwoTo128 ==
  <<3, 4, 0, 2, 8, 2, 3, 6, 6, 9, 2, 0, 9, 3, 8, 4, 6, 3, 4, 6, 3, 3, 7, 4, 6, 0, 7, 4,
    3, 1, 7, 6, 8, 2, 1, 1, 4, 5, 6>>

\* texts of numbers at the limits of int64, uint64 and float32; a float64
\* holds each of the floats exactly
LimitTexts ==
  {FormatUint(TwoTo63) \o <<".", "0">>, <<"-">> \o FormatUint(TwoTo63) \o <<".", "0">>,
   <<"-">> \o FormatUint(TwoTo63), FormatUint(MaxUint64),
   FormatUint(TenTo19) \o <<".", "0">>, FormatUint(TwoTo64) \o <<".", "0">>,
   FormatUint(TwoTo128) \o <<".", "0">>, <<"-">> \o FormatUint(TwoTo128) \o <<".", "0">>}

DecodeTexts == FloatTexts \cup OtherTexts \cup LimitTexts

\* float(f) and integer(i) of unmarshal_test.go
float(f) == Number(f, <<0>>, TRUE, FALSE)

integer(i) == Number(FloatZero, i, FALSE, FALSE)

\* Values a program builds: the ones of unmarshal_test.go, Numbers whose
\* Float no parser produces, and composites of them
DecodeValues ==
  {float(Float(FALSE, <<1>>, <<>>)), float(Float(FALSE, <<1>>, <<1>>)),
   float(Float(FALSE, <<1>> \o Repeat(0, 200), <<>>)),
   float(Float(TRUE, <<1>>, <<>>)), float(Float(TRUE, <<0>>, <<5>>)),
   float(NaN), float(Inf(FALSE)), float(Inf(TRUE)),
   integer(<<1>>), integer(MaxUint64), Number(FloatZero, <<0>>, FALSE, TRUE),
   Bool(TRUE), Null, String(<<"a">>), Object,
   Array(<<integer(<<1>>), integer(<<2>>)>>),
   Array(<<float(Float(FALSE, <<1>>, <<>>)), Bool(FALSE)>>),
   Array(<<Array(<<integer(<<1>>), String(<<"a">>)>>)>>)}

\* a pointer to a variable of type t
addressOf(t) == [kind |-> "ptr", isNil |-> FALSE, elem |-> t]

\* a variable of type t that holds val, and what the caller passes for it
variable(t, val) == [arg |-> addressOf(t), val |-> val]

\* the variables decoded into, each with the zero value of its type or
\* with a value stored earlier; a nil pointer and a variable passed by value
Targets ==
  {variable(Kind(k), int64Of(n, m)) :
     k \in {"int8", "int64"}, n \in BOOLEAN, m \in {<<0>>, <<7>>}}
  \cup {variable(Kind(k), uint64Of(m)) : k \in {"uint8", "uint64"}, m \in {<<0>>, <<7>>}}
  \cup {variable(Kind(k), f) :
          k \in FloatKinds, f \in {FloatZero, Float(FALSE, <<7>>, <<5>>)}}
  \cup {variable(Kind("bool"), boolOf(b)) : b \in BOOLEAN}
  \cup {variable(Kind("string"), stringOf(s)) : s \in {<<>>, <<"z">>}}
  \cup {variable(SliceOf(Kind("int64")), s) :
          s \in {nil, sliceOf(<<int64Of(FALSE, <<7>>)>>)}}
  \cup {variable(SliceOf(SliceOf(Kind("int8"))), nil),
        variable(SliceOf(Kind("bool")), nil),
        variable(ArrayOf(Kind("int64")), sliceOf(<<int64Of(FALSE, <<0>>)>>)),
        variable(Kind("interface"), nil),
        [arg |-> [kind |-> "ptr", isNil |-> TRUE, elem |-> Kind("int64")], val |-> nil],
        [arg |-> [kind |-> "int64", isNil |-> FALSE], val |-> int64Of(FALSE, <<7>>)]}

DecodeInit ==
  /\ \/ input \in DecodeTexts /\ v = Idle /\ pc = "bytes"
     \/ input = Idle /\ v \in DecodeValues /\ pc = "value"
  /\ target \in Targets /\ frames = Idle /\ cursor = Idle
  /\ out = Idle
  /\ mut = Idle /\ cfg = Idle /\ text = Idle /\ text2 = Idle /\ sortImpl = Idle
  /\ obj = Object /\ hist = <<>> /\ iter = NoIter /\ ret = NoCall

\* what the variable holds after a decoder ended as r
stored(r) == [target EXCEPT !.val = IF r.set THEN r.val ELSE @]

\* Unmarshal(input, &variable)
DoUnmarshal ==
  /\ pc = "bytes"
  /\ out' = Unmarshal(input, target.arg)
  /\ target' = stored(out')
  /\ pc' = IF out'.panic # NoPanic THEN "panicked" ELSE "decoded"
  /\ UNCHANGED <<v, cfg, mut, text, input, text2, sortImpl, objVars, stepVars>>

\* UnmarshalValue(v, &variable)
DoUnmarshalValue ==
  /\ pc = "value"
  /\ out' = UnmarshalValue(v, target.arg)
  /\ target' = stored(out')
  /\ pc' = IF out'.panic # NoPanic THEN "panicked" ELSE "decoded"
  /\ UNCHANGED <<v, cfg, mut, text, input, text2, sortImpl, objVars, stepVars>>

DecodeNext == DoUnmarshal \/ DoUnmarshalValue

DecodeSpec == DecodeInit /\ [][DecodeNext]_vars

(***************************************************************************)
(* Properties of the decoder                                               *)
(***************************************************************************)

\* the Value the decoder was given: the caller's, or the one the bytes parse
\* to, nil if they do not parse
source == IF v # Idle THEN v ELSE Deserialize(input).value

\* the step is a call of the decoder with a pointer to a variable
decodes ==
  pc \in {"bytes", "value"} /\ pc' # pc /\ target.arg.kind = "ptr" /\ ~target.arg.isNil

\* the kind of the variable decoded into
targetKind == target.arg.elem.kind

\* the cause of the error the decoder returned, nil if it returned none
causeOf(r) == IF r.err # nil /\ r.err.kind = "UnmarshalError" THEN r.err.Cause ELSE r.err

\* the source is a Number of float kind whose Float is finite and unsigned,
\* the sign being in IsNeg as in every Number a parser makes
floatSource ==
  /\ source # nil /\ source.t = "number" /\ source.IsFloat
  /\ source.Float.cls = "fin" /\ ~source.Float.neg

\* the signed value of the Number n, without its fraction, fits the kind k
fitsKind(n, k) ==
  IF k \in IntKinds
  THEN IF n.IsNeg THEN ~NumLess(minInt[k], n.Float.ip) ELSE ~NumLess(maxInt[k], n.Float.ip)
  ELSE (~n.IsNeg \/ n.Float.ip = <<0>>) /\ ~NumLess(maxUint[k], n.Float.ip)

\* the integral value of the Number n as a variable of kind k holds it
integralOf(n, k) ==
  IF k \in IntKinds THEN int64Of(n.IsNeg, n.Float.ip) ELSE uint64Of(n.Float.ip)

\* the decoder stored in the variable of kind k the integral value of n if
\* n has no fraction and fits, and otherwise failed with a fractional-value
\* error or an overflow error and left the variable as it was
coercedAsStated(n, k) ==
  IF n.Float.fp = <<>> /\ fitsKind(n, k)
  THEN /\ out'.err = nil /\ out'.panic = NoPanic
       /\ target'.val = integralOf(n, k)
  ELSE /\ out'.err # nil /\ target' = target
       /\ \/ causeOf(out').kind = "FractionalFloatError" /\ n.Float.fp # <<>>
          \/ causeOf(out').kind = "OverflowError" /\ ~fitsKind(n, k)

\* C21: decoding a float-kind Number into a signed or unsigned integer
\* variable succeeds and stores the integral value exactly when the float
\* has a zero fraction and the signed value fits the range of the variable;
\* otherwise it fails with a fractional-value error, the fraction being
\* non-zero, or with an overflow error, the value being out of range, and
\* the variable keeps what it held.
C21_FloatCoercion ==
  [][decodes /\ floatSource /\ targetKind \in IntKinds \cup UintKinds
     => coercedAsStated(source, targetKind)]_vars

\* C21 for the floats below 2^63 decoded into the variables that take a
\* sign: there the coercion is as stated
C21_FloatCoercionSigned ==
  [][decodes /\ floatSource /\ targetKind \in IntKinds
       /\ NumLess(source.Float.ip, TwoTo63)
     => coercedAsStated(source, targetKind)]_vars

\* the decoder was called with a pointer to a variable and has ended
decoded ==
  pc \in {"decoded", "panicked"} /\ target.arg.kind = "ptr" /\ ~target.arg.isNil

\* a variable of kind k can hold a Value of the variant x
canHold(k, x) ==
  CASE x = "null"   -> k \in {"ptr", "slice", "array", "map", "interface"}
    [] x = "bool"   -> k = "bool"
    [] x = "number" -> k \in IntKinds \cup UintKinds \cup FloatKinds
    [] x = "string" -> k = "string"
    [] x = "array"  -> k \in {"slice", "array"}
    [] x = "object" -> k \in {"struct", "map"}

\* the decoder was given a Value of a variant that the variable cannot hold
mismatched == decoded /\ source # nil /\ ~canHold(targetKind, source.t)

\* C22: when a Value of variant X (null, bool, number, string, array,
\* object) is decoded into a variable of a type that cannot hold it, the
\* decoder returns an InvalidTypeError whose JSONType is X, for every X.
C22_MismatchNamesVariant ==
  mismatched
  => /\ out.panic = NoPanic /\ out.err # nil
     /\ causeOf(out).kind = "InvalidTypeError"
     /\ causeOf(out).JSONType = source.t

\* C22 for the variants bool and number: the error names the variant
C22_BoolAndNumberNamed ==
  mismatched /\ source.t \in {"bool", "number"}
  => /\ out.panic = NoPanic /\ out.err # nil
     /\ causeOf(out).kind = "InvalidTypeError"
     /\ causeOf(out).JSONType = source.t

\* C22 for the other variants: a string and an array are reported as null,
\* an object ends in a panic, and a null given for a variable that is
\* reached through the pointer passed by the caller is accepted
C22_OtherVariants ==
  mismatched /\ source.t \notin {"bool", "number"}
  => CASE source.t \in {"string", "array"} ->
            /\ causeOf(out).kind = "InvalidTypeError"
            /\ causeOf(out).JSONType = TypeNull
       [] source.t = "object" -> out.panic = "not implemented"
       [] source.t = "null" -> out.err = nil /\ ~out.set

\* decoding the Value val into a variable of type t fails
fails(val, t) ==
  valueUnmarshal(UnmarshalState(nil, <<>>), val, reflectValue(t, TRUE)).err # nil

\* the indices that lead from the Value val, decoded into a variable of type
\* t, to the value whose decoding fails: the first element that fails, then
\* the indices inside it
RECURSIVE failingPath(_, _)
failingPath(val, t) ==
  IF val.t = "array" /\ t.kind = "slice" /\ \E i \in 1..Len(val.a) : fails(val.a[i], t.elem)
  THEN LET i == CHOOSE j \in 1..Len(val.a) :
                  /\ fails(val.a[j], t.elem)
                  /\ \A k \in 1..(j - 1) : ~fails(val.a[k], t.elem)
       IN <<i - 1>> \o failingPath(val.a[i], t.elem)
  ELSE <<>>

\* the location node the indices of path lead to from nd
RECURSIVE nodeAt(_, _)
nodeAt(nd, path) ==
  IF path = <<>> THEN nd ELSE nodeAt(nd.arrayNodes[Head(path) + 1], Tail(path))

\* the decoder was given an array for a slice and an element failed
elementFailed ==
  /\ decoded /\ source # nil /\ source.t = "array" /\ targetKind = "slice"
  /\ failingPath(source, target.arg.elem) # <<>>

\* C23: when decoding element i of an array fails, at any depth, the Field
\* of the UnmarshalError is the path of the enclosing array extended by i,
\* and with location data its Loc is the start of element i, not that of
\* the enclosing array.
C23_ElementErrorPath ==
  elementFailed
  => LET path == failingPath(source, target.arg.elem) IN
     /\ out.panic = NoPanic /\ out.err # nil /\ out.err.kind = "UnmarshalError"
     /\ out.err.Field = [k \in 1..Len(path) |-> Itoa(path[k])]
     /\ v = Idle => out.err.Loc = nodeAt(deserialize(input).output.node, path).start

\* C23 as the decoder behaves: the error of an element carries the path and
\* the location of the array the caller passed
C23_ErrorAtOutermostArray ==
  elementFailed /\ out.panic = NoPanic
  => /\ out.err.kind = "UnmarshalError"
     /\ out.err.Field = <<>>
     /\ out.err.Loc = IF v = Idle THEN deserialize(input).output.node.start ELSE nil

\* the signed value of the Number n as a float64: its magnitude, negated
\* when the sign flag is set
signedFloat(n) ==
  LET m == IF n.IsFloat THEN n.Float ELSE float64OfUint(n.Integer) IN
  IF n.IsNeg /\ m.cls # "nan" THEN [m EXCEPT !.neg = ~m.neg] ELSE m

\* a Number was decoded into a variable of a float kind
numberIntoFloat ==
  /\ decoded /\ source # nil /\ source.t = "number" /\ targetKind \in FloatKinds
  /\ out.err = nil

\* C30: decoding a Number into a float32 or float64 variable stores the
\* signed value, the magnitude negated when the sign flag is set, so that
\* Unmarshal of the text of a negative number gives a negative float.
C30_FloatSign ==
  numberIntoFloat /\ source.Float.cls # "nan"
  => /\ out.set
     /\ floatEq(target.val,
                IF targetKind = "float32" THEN float32Of(signedFloat(source))
                ELSE signedFloat(source))

\* C30 as the decoder behaves: the variable receives the magnitude of the
\* Number whatever its sign flag is
C30_FloatMagnitude ==
  numberIntoFloat
  => /\ out.set
     /\ target.val = IF targetKind = "float32" THEN float32Of(float64(source))
                     ELSE float64(source)

(***************************************************************************)
(* Properties of the combinators, on the cursors of the texts parsed       *)
(***************************************************************************)

\* what the six parsers of jsonParserC return at the cursor d
formResults(memo, d) == [k \in 1..6 |-> jsonForm(memo, k, d)]

\* the result of an alternation at the cursor d whose alternatives return
\* alts there: that of the first alternative that is valid or fatal, with
\* the cursor d if it is fatal, and no match at d if there is none
alternation(alts, d) ==
  LET stops == {k \in 1..Len(alts) : alts[k].r.Err # nil \/ alts[k].r.OK} IN
  IF stops = {} THEN Ret(d, Zero, COK(FALSE))
  ELSE LET k == CHOOSE j \in stops : \A i \in stops : j <= i IN
       IF alts[k].r.Err # nil THEN Ret(d, Zero, alts[k].r) ELSE alts[k]

\* the alternatives of jsonParserC at the cursor d, some of them valid or
\* fatal: the first of these
firstStop(memo, d) ==
  LET alts == formResults(memo, d) IN
  CHOOSE j \in 1..6 :
    /\ alts[j].r.Err # nil \/ alts[j].r.OK
    /\ \A i \in 1..(j - 1) : alts[i].r.Err = nil /\ ~alts[i].r.OK

triesAsStated(memo) ==
  \A p \in 0..Len(input) :
    tryForms(memo, cursorAt(input, p))
      = alternation(formResults(memo, cursorAt(input, p)), cursorAt(input, p))

\* C24: Try runs its alternatives in the listed order on the same cursor; a
\* plain no-match moves on to the next one; the first valid result is
\* returned with the cursor of its alternative; a fatal result is returned
\* at once with the original cursor; if every alternative reports no match
\* the result is no match with the original cursor.
C24_TryAlternation == parsedOnce => triesAsStated(memoTable(input))

\* the text parsed has a cursor where a later alternative is valid, one where
\* an alternative is fatal and one where none matches
threeCases(memo) ==
  /\ \E p \in 0..Len(input) :
       LET x == tryForms(memo, cursorAt(input, p)) IN
       x.r.V /\ x.d.idx > p /\ firstStop(memo, cursorAt(input, p)) > 1
  /\ \E p \in 0..Len(input) :
       LET x == tryForms(memo, cursorAt(input, p)) IN
       x.r.Err # nil /\ x.d = cursorAt(input, p)
  /\ \E p \in 0..Len(input) :
       tryForms(memo, cursorAt(input, p)) = Ret(cursorAt(input, p), Zero, COK(FALSE))

C24_Witness == parsedOnce /\ threeCases(memoTable(input))

\* the composite parser for the opening delimiter b, and the parser of its
\* elements
composite(memo, b, d) == IF b = "[" THEN arrayParser(memo, d) ELSE objectParser(memo, d)

element(memo, b, d) ==
  IF b = "[" THEN memoAt(memo.val, LAMBDA j : jsonParserC(memo, j), d)
  ELSE trimSpaceParser(
         LAMBDA i : memoAt(memo.elem, LAMBDA j : elemParser(memo, j), i), d)

\* the cursors of the text parsed that stand before a '[' or a '{'
openings == {p \in 0..(Len(input) - 1) : input[p + 1] \in {"[", "{"}}

committed(memo) ==
  \A p \in openings :
    LET x == composite(memo, input[p + 1], cursorAt(input, p)) IN
    x.r.V \/ x.r.Err # nil

\* C25: once the array or object parser has consumed its '[' or '{', an
\* element that fails to parse makes it return a fatal result and never a
\* plain no-match, for the first element as for every later one.
C25_CommittedComposite == parsedOnce => committed(memoTable(input))

firstElementOnly(memo) ==
  \A p \in openings :
    LET x == composite(memo, input[p + 1], cursorAt(input, p))
        e == element(memo, input[p + 1], cursorAt(input, p + 1))
    IN ~x.r.V /\ x.r.Err = nil
       => ~e.r.V /\ e.r.Err = nil /\ x.d = cursorAt(input, p)

\* C25 as the parsers behave: a composite that has consumed its opening
\* delimiter returns a plain no-match only when its first element is one
C25_PlainNoMatchOfFirstElement == parsedOnce => firstElementOnly(memoTable(input))

\* C25 for the later elements: the composite whose first element is valid
\* or fatal is valid or fatal
laterFatal(memo) ==
  \A p \in openings :
    LET x == composite(memo, input[p + 1], cursorAt(input, p))
        e == element(memo, input[p + 1], cursorAt(input, p + 1))
    IN e.r.V \/ e.r.Err # nil => x.r.V \/ x.r.Err # nil

C25_LaterElementsFatal == parsedOnce => laterFatal(memoTable(input))

(***************************************************************************)
(* Properties of the location tree                                         *)
(***************************************************************************)

\* the row and column of the byte n + 1 of the text t
locOfByte(t, n) == [Row |-> rowOf(t, n + 1), Col |-> colOf(t, n + 1)]

\* the number of bytes of t before the location loc, or -1 if t has no such
\* location
offsetOf(t, loc) ==
  IF \E n \in 0..Len(t) : locOfByte(t, n) = loc
  THEN CHOOSE n \in 0..Len(t) : locOfByte(t, n) = loc
  ELSE -1

\* the bytes s + 1 .. e of the text t are the text of the value val and of
\* nothing more: they start and end with a byte of the value, they parse to
\* val as a whole, and the byte after them does not go on with a number
spans(t, s, e, val) ==
  /\ 0 <= s /\ s < e /\ e <= Len(t)
  /\ ~IsSpace(t[s + 1]) /\ ~IsSpace(t[e])
  /\ LET x == parseWith(memoTable(SubSeq(t, s + 1, e)), SubSeq(t, s + 1, e)) IN
     x.r.Err = nil /\ x.o.value = val /\ x.d.idx = e - s
  /\ val.t = "number" /\ e < Len(t) => ~IsDigit(t[e + 1])

\* the bytes s + 1 .. e of the text t are the string token of the key
spansKey(t, s, e, key) ==
  /\ 0 <= s /\ s < e /\ e <= Len(t)
  /\ t[s + 1] = "\"" /\ t[e] = "\""
  /\ Unquote(SubSeq(t, s + 1, e)) = [o |-> key, err |-> nil]

\* the node nd is the location tree of the value val parsed from the text t
\* between the bytes lo and hi
RECURSIVE mirrors(_, _, _, _, _)
mirrors(val, nd, t, lo, hi) ==
  LET s == offsetOf(t, nd.start)
      e == offsetOf(t, nd.end)
  IN /\ lo <= s /\ e <= hi
     /\ spans(t, s, e, val)
     /\ CASE val.t = "array" ->
               /\ nd.objectNodes = <<>>
               /\ Len(nd.arrayNodes) = Len(val.a)
               /\ \A i \in 1..Len(val.a) :
                    mirrors(val.a[i], nd.arrayNodes[i], t,
                            IF i = 1 THEN s + 1 ELSE offsetOf(t, nd.arrayNodes[i - 1].end) + 1,
                            e - 1)
          [] val.t = "object" ->
               /\ nd.arrayNodes = <<>>
               /\ Len(nd.objectNodes) = Len(pairsOf(val))
               /\ \A i \in 1..Len(nd.objectNodes) :
                    LET kv == nd.objectNodes[i]
                        ks == offsetOf(t, kv.keyStart)
                        ke == offsetOf(t, kv.keyEnd)
                    IN /\ spansKey(t, ks, ke, pairsOf(val)[i].key)
                       /\ ks >= (IF i = 1 THEN s + 1
                                 ELSE offsetOf(t, nd.objectNodes[i - 1].node.end) + 1)
                       /\ mirrors(pairsOf(val)[i].value, kv.node, t, ke + 1, e - 1)
          [] OTHER -> nd.arrayNodes = <<>> /\ nd.objectNodes = <<>>

mirrorsOutput(d) == mirrors(d.output.value, d.output.node, input, 0, Len(input))

\* C26: the start of a node is the row and column of the first byte of its
\* value and its end those right after the last byte; the node tree mirrors
\* the Value tree, with one child per array element and one per object
\* entry in source order, each entry with the start and end of its key.
C26_LocationSpans == parsedOnce /\ out.err = nil => mirrorsOutput(deserialize(input))

\* the rows the node nd, the nodes below it and their keys start on
RECURSIVE nodeRows(_)
nodeRows(nd) ==
  {nd.start.Row}
  \cup UNION {nodeRows(nd.arrayNodes[i]) : i \in 1..Len(nd.arrayNodes)}
  \cup UNION {nodeRows(nd.objectNodes[i].node) \cup {nd.objectNodes[i].keyStart.Row} :
                i \in 1..Len(nd.objectNodes)}

\* a text of several rows parsed to an object that holds an array
witnessTree(d) ==
  /\ d.output.value.t = "object"
  /\ \E i \in 1..Len(d.output.node.objectNodes) :
       Len(d.output.node.objectNodes[i].node.arrayNodes) >= 2
  /\ Cardinality(nodeRows(d.output.node)) >= 2

C26_Witness == parsedOnce /\ out.err = nil /\ witnessTree(deserialize(input))

(***************************************************************************)
(* Properties of the iterator                                              *)
(***************************************************************************)

\* the step is a call of Next on the iterator the caller holds
nextCalled == pc = "ready" /\ iter # NoIter /\ ~iter.done /\ ret'.op = "Next"

\* the entry the iterator is positioned on was removed from the object
\* after Iter or the last Next
entryRemoved ==
  /\ iter # NoIter /\ iter.it.e # 0
  /\ obj.m # nil /\ iter.it.e \notin Range(obj.m.keys.order)

\* C27: if the entry the iterator is positioned on is removed by Delete or
\* by Set of its key between Iter and a later Next, that Next returns
\* normally, with a surviving pair or the end, and skips the removed entry;
\* it never reaches the panic "illegal map state".
C27_NextAfterRemoval ==
  [][nextCalled /\ entryRemoved
     => /\ ret'.panic = NoPanic
        /\ ret'.ok => Last(iter'.pairs) \in Range(pairsOf(obj))]_vars

\* C27 as the iterator behaves: Next panics with "illegal map state"
\* whenever the entry it is positioned on was removed
C27_PanicAfterRemoval ==
  [][nextCalled /\ entryRemoved
     => ret'.panic = "illegal map state" /\ pc' = "panicked"]_vars

\* and Next returns normally whenever it was not
C27_NextWithoutRemoval ==
  [][nextCalled /\ ~entryRemoved => ret'.panic = NoPanic]_vars

(***************************************************************************)
(* Properties of Deserialize on the bytes after the first value            *)
(***************************************************************************)

\* the number of bytes of the text t up to the end of its first value
valueEnd(d, t) == offsetOf(t, d.output.node.end)

\* the text accepted before was cut at or after the end of its first value
cutAfterValue(d) ==
  pc = "reparsed" /\ mut.kind = "truncate" /\ mut.at >= valueEnd(d, text)

\* C28: Deserialize does not examine the input after the first value: the
\* inputs 1 2, nullx, 1.5e3, 1. and [] ] succeed and return the first value
\* (1, null, 1.5, 1 and the empty array), and what follows the first value
\* of a text can be cut off without a change of the result.
C28_TrailingInputIgnored ==
  /\ parsedOnce /\ input \in TrailingTexts
     => \E c \in TrailingCases : c.text = input /\ out = [value |-> c.value, err |-> nil]
  /\ cutAfterValue(deserialize(text)) => out = [value |-> v, err |-> nil]

C28_Witness ==
  /\ cutAfterValue(deserialize(text)) /\ text \in TrailingTexts
  /\ mut.at < Len(text) /\ out.err = nil

(***************************************************************************)
(* Deserialize step by step.  The parsers above map a cursor to a result   *)
(* at once; here the same grammar runs one step at a time: a step is one   *)
(* pass of a loop (the whitespace skip of trimSpaceParser, the scan of     *)
(* predicateParser, the scan of rawStringParser), one call of a parser     *)
(* without a loop, or one return to the caller.  frames holds the calls    *)
(* that have not returned, each with its local variables, and cursor is    *)
(* the offset of the deserializer the running parser holds.  A result is   *)
(* kept as its status: valid, a plain no-match, or an error.               *)
(***************************************************************************)
\* the frame of a trimSpaceParser(p) called at c: then names p, a parser or
\* the byte of a byteParser; passes counts the passes of its loop
spaceFrame(then, c) ==
  [fn |-> "trimSpaceParser", then |-> then, scan |-> c, passes |-> 0]

\* the frame of the Try of jsonParserC called at d, at its k-th parser
tryFrame(k, d) == [fn |-> "Try", k |-> k, d |-> d]

\* the frame of a digitsParser called at c by the float parser (for the
\* digits before the point, then for those after it) or by the int parser,
\* under the positiveNumberParser called at from and the numberParser
\* called at first
digitsFrame(part, from, first, c) ==
  [fn |-> "digitsParser", part |-> part, from |-> from, first |-> first,
   scan |-> c, passes |-> 0]

\* the frame of the scan of rawStringParser called at d, where the quote is
stringFrame(d) ==
  [fn |-> "rawStringParser", d |-> d, inEscape |-> FALSE, scan |-> d + 1, passes |-> 0]

\* the frame of byteParser(b)
byteFrame(b) == [fn |-> "byteParser", b |-> b]

\* the frame of a listParser called at d, whose endParser takes the byte
\* close: at names the call it waits for, bb2 is the cursor its running
\* pass started with, prev the one the pass before started with
listFrame(close, d) ==
  [fn |-> "listParser", close |-> close, d |-> d, at |-> "first end",
   bb2 |-> d, prev |-> d - 1, passes |-> 0]

\* the frame of elemParser called at d: at names the call it waits for
elemFrame(d) == [fn |-> "elemParser", d |-> d, at |-> "key"]

\* the frame of jsonParserE
frameE == [fn |-> "jsonParserE"]

top(fs) == fs[Len(fs)]

pop(fs) == SubSeq(fs, 1, Len(fs) - 1)

\* fs with its last frame replaced by f
swap(fs, f) == Append(pop(fs), f)

\* the parser goes on running with the frames fs at the cursor c
running(fs, c) == [frames |-> fs, cursor |-> c, pc |-> "running", out |-> Idle]

\* the running parser has returned to the last of fs at the cursor c
returning(fs, c, status) ==
  [frames |-> fs, cursor |-> c, pc |-> "returning", out |-> [status |-> status]]

\* the frame of p(d) for the p of a trimSpaceParser(p)
called(then, c) ==
  CASE then = "jsonParserC" -> spaceFrame("Try", c)
    [] then = "Try" -> tryFrame(1, c)
    [] then = "elemParser" -> elemFrame(c)
    [] OTHER -> byteFrame(then)

\* a variant of trimSpacePass that reads a byte it does not step over
trimSpacePassInPlace(b, fs, c) ==
  IF c < Len(b) /\ IsSpace(b[c + 1])
  THEN running(swap(fs, [top(fs) EXCEPT !.passes = @ + 1]), c)
  ELSE running(swap(fs, called(top(fs).then, c)), c)

\* one pass of the loop of trimSpaceParser: over a space, or out of the
\* loop to p(d)
trimSpacePass(b, fs, c) ==
  IF c < Len(b) /\ IsSpace(b[c + 1])
  THEN running(swap(fs, [top(fs) EXCEPT !.passes = @ + 1]), c + 1)
  ELSE running(swap(fs, called(top(fs).then, c)), c)

\* the return of a digitsParser that read the digits after f.scan up to c,
\* and what floatParser, intParser, positiveNumberParser and numberParser
\* do with it
digitsReturn(b, fs, c) ==
  LET f == top(fs)
      n == c - f.scan
      int == running(swap(fs, digitsFrame("int", f.from, f.first, f.from)), f.from)
  IN CASE f.part = "float int" ->
            IF n > 0 /\ c < Len(b) /\ b[c + 1] = "."
            THEN running(swap(fs, digitsFrame("float frac", f.from, f.first, c + 1)), c + 1)
            ELSE int
       [] f.part = "float frac" ->
            IF n = 0 THEN int
            ELSE IF ParseFloat(SubSeq(b, f.from + 1, c)).err # nil
            THEN returning(pop(fs), f.first, "error")
            ELSE returning(pop(fs), c, "valid")
       [] f.part = "int" ->
            IF n = 0
            THEN IF f.from # f.first
                 THEN running(swap(fs, digitsFrame("float int", f.first, f.first, f.first)),
                              f.first)
                 ELSE returning(pop(fs), f.first, "noMatch")
            ELSE IF ParseUint(SubSeq(b, f.from + 1, c)).err # nil
            THEN returning(pop(fs), f.first, "error")
            ELSE returning(pop(fs), c, "valid")

\* one pass of the loop of predicateParser under digitsParser: over a
\* digit, or out of the loop
digitsPass(b, fs, c) ==
  IF c < Len(b) /\ IsDigit(b[c + 1])
  THEN running(swap(fs, [top(fs) EXCEPT !.passes = @ + 1]), c + 1)
  ELSE digitsReturn(b, fs, c)

\* one pass of the loop of rawStringParser: out with ErrUnmatchedQuote at
\* the end of the input, out at an unescaped quote, where Validate has the
\* bytes unquoted, or over a byte
stringPass(b, fs, c) ==
  LET f == top(fs)
      over == [f EXCEPT !.passes = @ + 1]
  IN IF c >= Len(b) THEN returning(pop(fs), f.d, "error")
     ELSE IF f.inEscape THEN running(swap(fs, [over EXCEPT !.inEscape = FALSE]), c + 1)
     ELSE IF b[c + 1] = "\\" THEN running(swap(fs, [over EXCEPT !.inEscape = TRUE]), c + 1)
     ELSE IF b[c + 1] = "\""
     THEN IF Unquote(SubSeq(b, f.d + 1, c + 1)).err # nil
          THEN returning(pop(fs), f.d, "error")
          ELSE returning(pop(fs), c + 1, "valid")
     ELSE running(swap(fs, over), c + 1)

\* byteParser(f.b) at c
byteStep(b, fs, c) ==
  IF c < Len(b) /\ b[c + 1] = top(fs).b
  THEN returning(pop(fs), c + 1, "valid")
  ELSE returning(pop(fs), c, "noMatch")

\* the call of p of a listParser at c: LazyP(jsonParserC) in an array,
\* trimSpaceParser(elemParser) in an object
elemCall(f, c) ==
  IF f.close = "]" THEN spaceFrame("Try", c) ELSE spaceFrame("elemParser", c)

\* the bytes of the literal l are the next bytes of b at d: a Chain of
\* byteParsers, one for each byte of l
literalAt(b, d, l) == d + Len(l) <= Len(b) /\ SubSeq(b, d + 1, d + Len(l)) = l

\* the call of the k-th parser of the Try of jsonParserC at its cursor d:
\* null, bool, number, string, array, object
tryStep(b, fs) ==
  LET f == top(fs)
      d == f.d
      next == IF f.k < 6 THEN running(swap(fs, tryFrame(f.k + 1, d)), d)
              ELSE returning(pop(fs), d, "noMatch")
      literalStep(l) == returning(pop(fs), d + Len(l), "valid")
      from == IF d < Len(b) /\ b[d + 1] = "-" THEN d + 1 ELSE d
      open(byte, close) ==
        IF d < Len(b) /\ b[d + 1] = byte
        THEN running(fs \o <<listFrame(close, d + 1), spaceFrame(close, d + 1)>>, d + 1)
        ELSE next
  IN CASE f.k = 1 -> IF literalAt(b, d, <<"n", "u", "l", "l">>)
                     THEN literalStep(<<"n", "u", "l", "l">>)
                     ELSE next
       [] f.k = 2 -> IF literalAt(b, d, <<"t", "r", "u", "e">>)
                     THEN literalStep(<<"t", "r", "u", "e">>)
                     ELSE IF literalAt(b, d, <<"f", "a", "l", "s", "e">>)
                     THEN literalStep(<<"f", "a", "l", "s", "e">>)
                     ELSE next
       [] f.k = 3 -> running(Append(fs, digitsFrame("float int", from, d, from)), from)
       [] f.k = 4 -> IF d < Len(b) /\ b[d + 1] = "\""
                     THEN running(Append(fs, stringFrame(d)), d + 1)
                     ELSE next
       [] f.k = 5 -> open("[", "]")
       [] f.k = 6 -> open("{", "}")

\* the Try of jsonParserC takes the result of its k-th parser
tryReturn(fs, c, status) ==
  LET f == top(fs) IN
  CASE status = "valid" -> returning(pop(fs), c, "valid")
    [] status = "error" -> returning(pop(fs), f.d, "error")
    [] status = "noMatch" ->
         IF f.k < 6 THEN running(swap(fs, tryFrame(f.k + 1, f.d)), f.d)
         ELSE returning(pop(fs), f.d, "noMatch")

\* listParser takes the result of the call it waited for: of endParser and
\* of p before the loop, then of endParser, sep and p in each pass
listReturn(fs, c, status) ==
  LET f == top(fs)
      pass == [f EXCEPT !.at = "end", !.bb2 = c, !.prev = f.bb2, !.passes = @ + 1]
  IN CASE f.at = "first end" ->
            IF status = "valid" THEN returning(pop(fs), c, "valid")
            ELSE running(Append(swap(fs, [f EXCEPT !.at = "first p"]), elemCall(f, c)), c)
       [] f.at = "first p" ->
            IF status = "valid"
            THEN running(Append(swap(fs, [f EXCEPT !.at = "end", !.bb2 = c]),
                                spaceFrame(f.close, c)), c)
            ELSE returning(pop(fs), f.d, status)
       [] f.at = "end" ->
            IF status = "valid" THEN returning(pop(fs), c, "valid")
            ELSE running(Append(swap(fs, [f EXCEPT !.at = "sep"]), spaceFrame(",", f.bb2)),
                         f.bb2)
       [] f.at = "sep" ->
            IF status = "valid"
            THEN running(Append(swap(fs, [f EXCEPT !.at = "p"]), elemCall(f, c)), c)
            ELSE returning(pop(fs), f.d, "error")
       [] f.at = "p" ->
            IF status = "valid"
            THEN running(Append(swap(fs, pass), spaceFrame(f.close, c)), c)
            ELSE returning(pop(fs), f.d, "error")

\* the call of elemParser at c: the quote of its key
elemStep(b, fs, c) ==
  IF c < Len(b) /\ b[c + 1] = "\""
  THEN running(Append(fs, stringFrame(c)), c + 1)
  ELSE returning(pop(fs), c, "noMatch")

\* elemParser takes the result of its key, of the colon and of its value
elemReturn(fs, c, status) ==
  LET f == top(fs) IN
  CASE f.at = "key" ->
         IF status = "valid"
         THEN running(Append(swap(fs, [f EXCEPT !.at = "colon"]), spaceFrame(":", c)), c)
         ELSE returning(pop(fs), f.d, status)
    [] f.at = "colon" ->
         IF status = "valid"
         THEN running(swap(fs, [f EXCEPT !.at = "value"])
                        \o <<frameE, spaceFrame("jsonParserC", c)>>, c)
         ELSE returning(pop(fs), f.d, "error")
    [] f.at = "value" ->
         IF status = "valid" THEN returning(pop(fs), c, "valid")
         ELSE returning(pop(fs), f.d, "error")

\* jsonParserE takes the result of jsonParserC: a plain no-match is an
\* error; the first jsonParserE returns to deserialize
jsonParserEReturn(fs, c, status) ==
  LET e == IF status = "valid" THEN "valid" ELSE "error" IN
  IF Len(fs) = 1
  THEN [frames |-> <<>>, cursor |-> c, pc |-> "returned", out |-> [status |-> e]]
  ELSE returning(pop(fs), c, e)

\* texts for the steps: deep nesting, runs of spaces, digits and escapes
StepTexts ==
  {<<"[", "[", "[", "]", "]", "]">>,
   <<"[", "{", "\"", "a", "\"", ":", "[", "1", "]", "}", "]">>,
   <<"[", "[", "[", "[">>,
   <<"{", "{", "[", "{">>,
   <<" ", "\n", "\t", " ", "1", "2", "3", "4", ".", "5", "6", " ", " ">>,
   <<"[", " ", " ", "1", " ", " ", ",", " ", " ", "2", " ", " ", "]">>,
   <<"-", "1", "2">>, <<"-", "1", ".", "5">>, <<"-", "x">>, <<"-">>, <<"1", ".", "x">>,
   <<"\"", "\\", "\\", "\\", "\"", "\"">>,
   <<"\"", "\\", "\\", "\\", "\"">>,
   <<"{", "\"", "a", "\"", " ", ":", " ", "1", ",", "\"", "b", "\"", ":", "[", "]", "}">>,
   <<"{", "\"", "a", "\"", " ", "1", "}">>,
   <<"{", "\"", "a", "\"", ":", "}">>,
   <<"[", "1", " ", "2", "]">>,
   <<"[", "1", ",", "]">>,
   <<"[", "1", ",", "x", "]">>,
   <<"[", "1", ",", "2", ",", "[", "3", ",", "4", ",", "[", " ", " ", "5", "6", "]", "]", "]">>}

StepInit ==
  /\ input \in Inputs \cup StepTexts
  /\ frames = <<frameE, spaceFrame("jsonParserC", 0)>> /\ cursor = 0
  /\ pc = "running" /\ out = Idle
  /\ v = Idle /\ cfg = Idle /\ mut = Idle /\ text = Idle /\ text2 = Idle
  /\ sortImpl = Idle /\ target = Idle
  /\ obj = Object /\ hist = <<>> /\ iter = NoIter /\ ret = NoCall

\* the step takes the parse to the configuration x
becomes(x) ==
  /\ frames' = x.frames /\ cursor' = x.cursor /\ pc' = x.pc /\ out' = x.out
  /\ UNCHANGED <<v, cfg, mut, text, input, text2, sortImpl, objVars, target>>

\* the parser fn is running
runs(fn) == pc = "running" /\ top(frames).fn = fn

\* the parser fn is handed the result of the call it waited for
resumes(fn) == pc = "returning" /\ top(frames).fn = fn

TrimSpacePass == runs("trimSpaceParser") /\ becomes(trimSpacePass(input, frames, cursor))

DigitsPass == runs("digitsParser") /\ becomes(digitsPass(input, frames, cursor))

StringPass == runs("rawStringParser") /\ becomes(stringPass(input, frames, cursor))

ByteStep == runs("byteParser") /\ becomes(byteStep(input, frames, cursor))

TryStep == runs("Try") /\ becomes(tryStep(input, frames))

ElemStep == runs("elemParser") /\ becomes(elemStep(input, frames, cursor))

TryReturn == resumes("Try") /\ becomes(tryReturn(frames, cursor, out.status))

ListReturn == resumes("listParser") /\ becomes(listReturn(frames, cursor, out.status))

ElemReturn == resumes("elemParser") /\ becomes(elemReturn(frames, cursor, out.status))

JsonParserEReturn ==
  resumes("jsonParserE") /\ becomes(jsonParserEReturn(frames, cursor, out.status))

StepNext ==
  \/ TrimSpacePass
  \/ DigitsPass
  \/ StringPass
  \/ ByteStep
  \/ TryStep
  \/ ElemStep
  \/ TryReturn
  \/ ListReturn
  \/ ElemReturn
  \/ JsonParserEReturn

\* the program runs on one goroutine that no one stops: a step that can be
\* taken is taken
StepSpec == StepInit /\ [][StepNext]_vars /\ WF_vars(StepNext)

(***************************************************************************)
(* Properties of the steps of Deserialize                                  *)
(***************************************************************************)
\* the frames of the loops that scan bytes: the whitespace skip, the digit
\* scan and the string scan
scanFrames ==
  {i \in 1..Len(frames) :
     frames[i].fn \in {"trimSpaceParser", "digitsParser", "rawStringParser"}}

\* a scan is the running parser, and each pass it has made took one byte:
\* after n passes the cursor is n bytes after the one the scan started with
scansConsume ==
  \A i \in scanFrames :
    /\ i = Len(frames) /\ pc = "running"
    /\ cursor = frames[i].scan + frames[i].passes

listFrames == {i \in 1..Len(frames) : frames[i].fn = "listParser"}

\* each pass of the loop of a listParser started after the one before it,
\* and after n passes the loop is n bytes or more after the cursor the
\* listParser was called with
listsConsume ==
  \A i \in listFrames :
    /\ frames[i].prev < frames[i].bb2
    /\ frames[i].bb2 - frames[i].d >= frames[i].passes

\* the number of calls of jsonParserC that run inside another one
nested ==
  LET calls == {i \in 1..Len(frames) : frames[i].fn = "Try"} IN
  IF calls = {} THEN 0 ELSE Cardinality(calls) - 1

\* the number of opening brackets among the bytes of b
openingBrackets(b) == Cardinality({i \in 1..Len(b) : b[i] \in {"[", "{"}})

\* the steps end as jsonParserE above does on the same bytes: with a value
\* at the same cursor, or with an error
returnsAsParsed(x) ==
  /\ (out.status = "valid") = (x.r.Err = nil)
  /\ out.status = "valid" => cursor = x.d.idx

\* C29: Deserialize returns, a value or an error, after finitely many
\* steps; every pass of the list loop, of the whitespace skip, of the digit
\* scan and of the string scan takes at least one byte or leaves the loop;
\* and the calls of the value parser are nested no deeper than the input
\* has opening brackets.
C29_Termination ==
  /\ <>(pc = "returned")
  /\ [](IF pc = "returned"
        THEN returnsAsParsed(parseWith(memoTable(input), input))
        ELSE scansConsume /\ listsConsume /\ nested <= openingBrackets(input))

\* the parse is three calls deep, in a list whose loop has made a pass, in a
\* scan that has made two
C29_Witness ==
  /\ pc = "running" /\ nested >= 3
  /\ \E i \in listFrames : frames[i].passes >= 1
  /\ top(frames).fn = "digitsParser" /\ top(frames).passes >= 2

====
